---------------------------- MODULE Spec2Model ----------------------------
(***************************************************************************)
(* e5: cross-platform tool installation manager.                           *)
(*                                                                         *)
(* The model covers the install-method resolver (recipe.ts), the version   *)
(* gate (recipe.ts checkVersion), the package-spec parser                  *)
(* (requirements.ts) and the orchestrator (Manager.installOne and          *)
(* Manager.sync).  The source tree holds two revisions of the              *)
(* orchestrator: src/src/manager.ts (lines 1-403) and src/unnamed/part_005.*)
(* The variable `revision` selects the one that runs.                      *)
(*                                                                         *)
(* Strings the code takes apart (package specs, versions) are sequences of *)
(* one-character strings.  An absent (undefined / null) value is Absent.   *)
(***************************************************************************)
EXTENDS Integers, Sequences, FiniteSets, TLC

VARIABLES
    \* ---- Manager: construction-time state
    revision,           \* which revision of manager.ts runs
    dryRun,             \* --dry-run
    ignoreLocal,        \* --ignore-local
    probes,             \* the host: outcome of `which` for each manager command
    env,                \* Environment.availableManagers
    document,           \* the requirements file main is started on
    requirements,       \* Requirements.packages
    recipes,            \* Manager.recipes cache: name -> Recipe
    fetched,            \* every Repository.fetchRecipe call: [name, ok]
    \* ---- main / sync
    pc,                 \* position of main/sync/installOne
    k,                  \* sync: index of the next requirement to examine (0-based)
    toInstall,          \* sync: the install batch
    syncErrors,         \* sync: `errors` (warnings)
    versionMismatches,  \* sync: `versionMismatches`
    examined,           \* sync: what the first loop observed and did, per requirement
    j,                  \* sync: index of the batch entry being installed (0-based)
    succeeded,          \* sync (part_005): specs installed
    failed,             \* sync (part_005): specs that failed, with the message
    exitCode,           \* main's return value, Absent while running
    thrown,             \* <<message>> of the error that left sync, Absent if none
    summary,            \* <<counts>> sync printed under "Sync complete:", <<>> if none
    notice,             \* <<what sync printed when it returned before installing>>
    \* ---- installOne frame
    packageName,
    effectiveVersion,
    versionCheck,       \* <<VersionCheckResult>> installOne obtained, <<>> if none
    methods,            \* candidate list
    i,                  \* loop index (0-based)
    errors,             \* installOne: per-backend failures
    \* ---- observable effects
    installLog,         \* every backend.install invocation: [call, manager, ok,
                        \* version (the argument), scriptVersion (VERSION seen
                        \* by the script), error]
    results,            \* one record per finished installOne call
    \* ---- resolver called on its own
    argRecipe,
    argManagers,
    argVersion,
    resolved,           \* what each getInstallMethods call returned, in order
    firstMethod,        \* <<what getInstallMethod returned>>, <<>> before the call
    \* ---- checkVersion and parsePackageSpec called on their own
    argHost,            \* what isInstalled / getInstalledVersion observe
    argRequired,        \* checkVersion's requiredVersion
    checked,            \* <<what checkVersion returned>>, <<>> before the call
    argSpec,            \* parsePackageSpec's argument
    parsedSpec,         \* <<what parsePackageSpec returned>>, <<>> before the call
    \* ---- native backends called on their own
    cacheUpdated,       \* AptBackend.cacheUpdated, PacmanBackend.cacheUpdated
    commands,           \* every runCommand / runPostInstall invocation, in order
    installed,          \* one record per finished Backend.install call
    \* ---- getInstalledVersion called on its own
    argVersionCommand,  \* recipe.package.versionCommand
    argRuns,            \* what each command getInstalledVersion may spawn does
    gotVersion          \* <<what getInstalledVersion returned>>, <<>> before the call

managerVars == <<revision, dryRun, ignoreLocal, probes, env, document, requirements,
                 recipes,
                 fetched>>
syncVars    == <<pc, k, toInstall, syncErrors, versionMismatches, examined, j,
                 succeeded, failed, exitCode, thrown, summary, notice>>
frameVars   == <<packageName, effectiveVersion, versionCheck, methods, i, errors>>
effectVars  == <<installLog, results>>
backendVars == <<cacheUpdated, commands, installed>>
queryVars == <<argVersionCommand, argRuns, gotVersion>>
resolverVars == <<argRecipe, argManagers, argVersion, resolved, firstMethod, argHost,
                  argRequired,
                  checked, argSpec, parsedSpec, backendVars, queryVars>>
vars == <<managerVars, syncVars, frameVars, effectVars, resolverVars>>

-----------------------------------------------------------------------------
(* Bounds *)

\* longest requirements list
MaxReqs == 3
\* longest available-managers list handed to the resolver on its own
MaxLen == 3
\* longest version string handed to checkVersion on its own
MaxVersionLen == 4
\* longest string handed to parsePackageSpec on its own
MaxSpecLen == 5
\* most Backend.install calls made on the native backends on their own
MaxCalls == 3
\* longest packages array of a requirements file main is started on
MaxPackages == 2
\* getInstallMethods calls made with the same arguments when the resolver is
\* called on its own
MaxResolves == 2
\* most candidates of an installOne call run on its own
MaxCandidates == 2
\* longest requirements list sync is followed to its end on
MaxBatch == 2
\* most version flags the binary accepts when getInstalledVersion is called on
\* its own
MaxFlagRuns == 1

-----------------------------------------------------------------------------
(* Values *)

\* undefined / null
Absent == <<"undefined">>

\* JavaScript truthiness of an optional string
Truthy(s) == s # Absent /\ s # <<>>

\* enum PackageManager
PackageManager ==
    {"homebrew", "apt", "pacman", "dnf", "cargo", "npm", "pipx", "script"}

\* the probe table of detectEnvironment, in its order
managerCommands ==
    <<"homebrew", "apt", "pacman", "dnf", "cargo", "npm", "pipx", "script">>

\* recipe.ts: the method keys validateRecipe accepts
VALID_PACKAGE_MANAGERS == PackageManager

SetMax(S) == CHOOSE x \in S : \A y \in S : y <= x

-----------------------------------------------------------------------------
(* requirements.ts *)

\* String.prototype.indexOf, 0-based, -1 when absent
indexOf(s, c) ==
    LET at == {n \in 1..Len(s) : s[n] = c}
    IN IF at = {} THEN -1 ELSE (CHOOSE x \in at : \A y \in at : x <= y) - 1

\* String.prototype.lastIndexOf, 0-based, -1 when absent
lastIndexOf(s, c) ==
    LET at == {n \in 1..Len(s) : s[n] = c}
    IN IF at = {} THEN -1 ELSE SetMax(at) - 1

\* String.prototype.substring(from, to), 0-based, `to` exclusive
substring(s, from, to) == SubSeq(s, from + 1, to)

parsePackageSpec(spec) ==
    LET atIndex == lastIndexOf(spec, "@")
    IN IF atIndex > 0
       THEN [name    |-> substring(spec, 0, atIndex),
             version |-> substring(spec, atIndex + 1, Len(spec))]
       ELSE [name |-> spec, version |-> Absent]

-----------------------------------------------------------------------------
(* backends/mod.ts *)

\* the value the function returns, as JavaScript prints it.  The switch has
\* no default and nothing follows it: for any other manager the function
\* falls off its end and returns undefined
supportsVersioning(manager) ==
    CASE manager \in {"apt", "script"} -> "true"
      [] manager \in {"homebrew", "pacman"} -> "false"
      [] OTHER -> "undefined"

\* getBackend(manager): <<the executor class>>, Absent when the switch, which
\* has no default, falls through and the function returns undefined
getBackend(manager) ==
    CASE manager = "homebrew" -> <<"HomebrewBackend">>
      [] manager = "apt" -> <<"AptBackend">>
      [] manager = "pacman" -> <<"PacmanBackend">>
      [] manager = "script" -> <<"ScriptBackend">>
      [] OTHER -> Absent

\* how `&&` and `!` read that value: undefined is falsy
ToBoolean(value) == value = "true"

-----------------------------------------------------------------------------
(* recipe.ts: resolver *)

\* the loop with unshift in place of push
RECURSIVE collectMethodsUnshift(_, _, _)
collectMethodsUnshift(recipe, availableManagers, n) ==
    IF n = 0 THEN <<>>
    ELSE LET prev    == collectMethodsUnshift(recipe, availableManagers, n - 1)
             manager == availableManagers[n]
         IN IF manager \in DOMAIN recipe.installMethods
            THEN <<<<manager, recipe.installMethods[manager]>>>> \o prev
            ELSE prev

\* the for loop of getInstallMethods over the first n available managers
RECURSIVE collectMethods(_, _, _)
collectMethods(recipe, availableManagers, n) ==
    IF n = 0 THEN <<>>
    ELSE LET prev    == collectMethods(recipe, availableManagers, n - 1)
             manager == availableManagers[n]
         IN IF manager \in DOMAIN recipe.installMethods
            THEN Append(prev, <<manager, recipe.installMethods[manager]>>)
            ELSE prev

compareMethodsFlipped(a, b) ==
    LET aSupports == ToBoolean(supportsVersioning(a[1]))
        bSupports == ToBoolean(supportsVersioning(b[1]))
    IN IF aSupports /\ ~bSupports THEN 1
       ELSE IF ~aSupports /\ bSupports THEN -1
       ELSE 0

\* the comparator of methods.sort
compareMethods(a, b) ==
    LET aSupports == ToBoolean(supportsVersioning(a[1]))
        bSupports == ToBoolean(supportsVersioning(b[1]))
    IN IF aSupports /\ ~bSupports THEN -1
       ELSE IF ~aSupports /\ bSupports THEN 1
       ELSE 0

\* methods.sort(comparator): Array.prototype.sort is stable (ECMAScript 2019).
\* Each element is inserted after the last already-placed element that does
\* not compare greater than it.
RECURSIVE sortMethods(_)
sortMethods(s) ==
    IF Len(s) <= 1 THEN s
    ELSE LET head  == sortMethods(SubSeq(s, 1, Len(s) - 1))
             x     == s[Len(s)]
             stops == {p \in 1..Len(head) : compareMethods(head[p], x) <= 0}
             p     == IF stops = {} THEN 0 ELSE SetMax(stops)
         IN SubSeq(head, 1, p) \o <<x>> \o SubSeq(head, p + 1, Len(head))

\* a getInstallMethods that sorts the list it was given as well
getInstallMethodsArraysSortingArgument(recipe, availableManagers, version) ==
    LET found == collectMethods(recipe, availableManagers, Len(availableManagers))
        keyed == sortMethods([n \in 1..Len(availableManagers) |->
                                 <<availableManagers[n], "m">>])
    IN IF Truthy(version)
       THEN [availableManagers |-> [n \in 1..Len(keyed) |-> keyed[n][1]],
             methods           |-> sortMethods(found)]
       ELSE [availableManagers |-> availableManagers, methods |-> found]

\* the two arrays getInstallMethods holds when it returns: its argument, which
\* the loop only reads, and the local `methods`, a new array that the loop
\* pushes to and that sort orders in place
getInstallMethodsArrays(recipe, availableManagers, version) ==
    LET found == collectMethods(recipe, availableManagers, Len(availableManagers))
    IN [availableManagers |-> availableManagers,
        methods           |-> IF Truthy(version) THEN sortMethods(found) ELSE found]

getInstallMethods(recipe, availableManagers, version) ==
    getInstallMethodsArrays(recipe, availableManagers, version).methods

\* first available method, or null
getInstallMethod(recipe, availableManagers) ==
    LET hits == {n \in 1..Len(availableManagers) :
                    availableManagers[n] \in DOMAIN recipe.installMethods}
    IN IF hits = {} THEN Absent
       ELSE LET n == CHOOSE h \in hits : \A g \in hits : h <= g
            IN <<availableManagers[n], recipe.installMethods[availableManagers[n]]>>

-----------------------------------------------------------------------------
(* recipe.ts: version check *)

\* version.replace(/^v/, "")
stripLeadingV(version) ==
    IF Len(version) > 0 /\ version[1] = "v" THEN Tail(version) ELSE version

\* String.prototype.trim
RECURSIVE trim(_)
trim(s) ==
    IF Len(s) > 0 /\ s[1] = " " THEN trim(Tail(s))
    ELSE IF Len(s) > 0 /\ s[Len(s)] = " " THEN trim(SubSeq(s, 1, Len(s) - 1))
    ELSE s

normalizeVersion(version) == trim(stripLeadingV(version))

\* checkVersion comparing the versions as written
checkVersionVerbatim(host, requiredVersion) ==
    [installed        |-> host.installed,
     installedVersion |-> host.installedVersion,
     versionMatch     |-> host.installed
                          /\ (~Truthy(requiredVersion)
                              \/ host.installedVersion = requiredVersion),
     requiredVersion  |-> IF Truthy(requiredVersion) THEN requiredVersion ELSE Absent]

\* checkVersion asking for an extracted version even when none is required
checkVersionNeedsVersion(host, requiredVersion) ==
    [installed        |-> host.installed,
     installedVersion |-> host.installedVersion,
     versionMatch     |-> host.installed /\ host.installedVersion # Absent
                          /\ (~Truthy(requiredVersion)
                              \/ normalizeVersion(host.installedVersion)
                                   = normalizeVersion(requiredVersion)),
     requiredVersion  |-> IF Truthy(requiredVersion) THEN requiredVersion ELSE Absent]

\* checkVersion, given what isInstalled and getInstalledVersion observe on the host
checkVersion(host, requiredVersion) ==
    IF ~host.installed
    THEN [installed        |-> FALSE,
          installedVersion |-> Absent,
          versionMatch     |-> FALSE,
          requiredVersion  |-> IF Truthy(requiredVersion) THEN requiredVersion ELSE Absent]
    ELSE IF ~Truthy(requiredVersion)
    THEN [installed        |-> TRUE,
          installedVersion |-> host.installedVersion,
          versionMatch     |-> TRUE,
          requiredVersion  |-> Absent]
    ELSE [installed        |-> TRUE,
          installedVersion |-> host.installedVersion,
          versionMatch     |-> host.installedVersion # Absent
                               /\ normalizeVersion(host.installedVersion)
                                    = normalizeVersion(requiredVersion),
          requiredVersion  |-> requiredVersion]

-----------------------------------------------------------------------------
(* detector.ts *)

\* the probe table without the script row
detectEnvironmentProbedOnly(found) ==
    SelectSeq(managerCommands, LAMBDA m : m \in found)

\* detectEnvironment: the probe table filtered by the commands found; the
\* script manager has no command and is always available
detectEnvironment(found) ==
    SelectSeq(managerCommands, LAMBDA m : m = "script" \/ m \in found)

\* the managers that have a command to probe
Probed == PackageManager \ {"script"}

\* what running `which cmd` may do: exit 0, exit non-zero, or fail to run
ProbeOutcomes == {"found", "missing", "error"}

\* commandExists: code === 0, and false when the command cannot be run
commandExists(outcome) == outcome = "found"

\* the managers whose probe succeeds on a host
FoundCommands(host) == {m \in Probed : commandExists(host[m])}

-----------------------------------------------------------------------------
(* recipe.ts: getInstalledVersion, extractVersion *)

IsDigit(c) == c \in {"0", "1", "2", "3", "4", "5", "6", "7", "8", "9"}

\* [a-zA-Z0-9.], over the letters that occur in the outputs of the model
IsTagChar(c) == IsDigit(c) \/ c \in {"a", "b", "v", "V", "."}

\* \d+ from position p (1-based): the position after the longest run of digits
digitsEnd(s, p) ==
    CHOOSE q \in p..(Len(s) + 1) :
       /\ \A n \in p..(q - 1) : IsDigit(s[n])
       /\ q = Len(s) + 1 \/ ~IsDigit(s[q])

\* [a-zA-Z0-9.]+ from position p, likewise
tagEnd(s, p) ==
    CHOOSE q \in p..(Len(s) + 1) :
       /\ \A n \in p..(q - 1) : IsTagChar(s[n])
       /\ q = Len(s) + 1 \/ ~IsTagChar(s[q])

\* /(\d+\.\d+)/ at position p: the position after the match, 0 if none
majorMinorAt(s, p) ==
    LET a == digitsEnd(s, p)
    IN IF a > p /\ a <= Len(s) /\ s[a] = "." /\ digitsEnd(s, a + 1) > a + 1
       THEN digitsEnd(s, a + 1)
       ELSE 0

\* /(\d+\.\d+\.\d+(?:[-+][a-zA-Z0-9.]+)?)/ at position p, likewise
semVerAt(s, p) ==
    LET b == majorMinorAt(s, p)
    IN IF b > 0 /\ b <= Len(s) /\ s[b] = "." /\ digitsEnd(s, b + 1) > b + 1
       THEN LET c == digitsEnd(s, b + 1)
            IN IF c < Len(s) /\ s[c] \in {"-", "+"} /\ tagEnd(s, c + 1) > c + 1
               THEN tagEnd(s, c + 1)
               ELSE c
       ELSE 0

\* the end of the match of a pattern at position p: "semver" is the first
\* pattern extractVersion tries, "majorMinor" the second
matchEnd(pattern, s, p) ==
    IF pattern = "semver" THEN semVerAt(s, p) ELSE majorMinorAt(s, p)

\* output.match(pattern)[1] for the leftmost match, Absent (null) if none
firstMatch(s, pattern) ==
    LET starts == {p \in 1..Len(s) : matchEnd(pattern, s, p) > 0}
    IN IF starts = {} THEN Absent
       ELSE LET p == CHOOSE x \in starts : \A y \in starts : x <= y
            IN SubSeq(s, p, matchEnd(pattern, s, p) - 1)

extractVersion(output) ==
    IF firstMatch(output, "semver") # Absent THEN firstMatch(output, "semver")
    ELSE firstMatch(output, "majorMinor")

\* the commands getInstalledVersion may spawn: the recipe's versionCommand,
\* then the binary with each of versionFlags, in that order
versionFlags == <<"--version", "-V", "-v", "version">>
QueryCommands == {"versionCommand"} \cup {versionFlags[n] : n \in 1..Len(versionFlags)}

\* what a spawned command does: spawning throws, or the command exits with a
\* code and has printed `output` (stdout followed by stderr)
Run(spawned, code, output) == [spawned |-> spawned, code |-> code, output |-> output]
NotSpawned == Run(FALSE, 1, <<>>)

\* the loop over versionFlags from flag n on
RECURSIVE tryVersionFlags(_, _)
tryVersionFlags(runs, n) ==
    IF n > Len(versionFlags) THEN Absent
    ELSE LET run == runs[versionFlags[n]]
         IN IF run.spawned /\ run.code = 0 /\ Truthy(extractVersion(run.output))
            THEN extractVersion(run.output)
            ELSE tryVersionFlags(runs, n + 1)

\* getInstalledVersion(recipe): when the custom command was spawned and exits
\* non-zero, nothing is returned in the first block and the common flags are
\* tried
getInstalledVersion(versionCommand, runs) ==
    LET run == runs["versionCommand"]
    IN IF Truthy(versionCommand) /\ ~run.spawned THEN Absent
       ELSE IF Truthy(versionCommand) /\ run.code = 0 THEN extractVersion(run.output)
       ELSE tryVersionFlags(runs, 1)

-----------------------------------------------------------------------------
(* requirements.ts: loadRequirements *)

\* an element of the packages array: a TOML string or a value of another type
Item(type, text) == [type |-> type, text |-> text]

\* a requirements file: whether Deno.readTextFileSync returns ("ok") or
\* throws NotFound or another error, whether parseToml accepts the content,
\* and the packages field of the parsed table: undefined, an array, or a
\* value of another type
Document(read, toml, packages, items) ==
    [read |-> read, toml |-> toml, packages |-> packages, items |-> items]

\* no file at the path
NoDocument == Document("NotFound", TRUE, "undefined", <<>>)

\* the file a valid requirements list was loaded from
documentOf(packages) ==
    Document("ok", TRUE, "array",
             [n \in 1..Len(packages) |-> Item("string", packages[n])])

\* typeof pkg !== "string" || pkg.trim() === ""
invalidItem(pkg) == pkg.type # "string" \/ trim(pkg.text) = <<>>

\* a validateRequirements that drops the invalid elements
validateRequirementsSkipping(data) ==
    [throws   |-> <<>>,
     packages |-> LET valid == SelectSeq(data.items, LAMBDA pkg : ~invalidItem(pkg))
                  IN [n \in 1..Len(valid) |-> valid[n].text]]

\* validateRequirements(data): data is the table parseToml returned
validateRequirements(data) ==
    IF data.packages = "undefined"
    THEN [throws |-> <<>>, packages |-> <<>>]
    ELSE IF data.packages # "array"
    THEN [throws |-> <<"Invalid requirements: 'packages' must be an array">>,
          packages |-> <<>>]
    ELSE IF \E n \in 1..Len(data.items) : invalidItem(data.items[n])
    THEN [throws |-> <<"Invalid requirements: 'packages[i]' must be a non-empty string">>,
          packages |-> <<>>]
    ELSE [throws |-> <<>>,
          packages |-> [n \in 1..Len(data.items) |-> data.items[n].text]]

\* parseRequirementsContent(content)
parseRequirementsContent(content) ==
    IF ~content.toml
    THEN [throws |-> <<"TOML parse error">>, packages |-> <<>>]
    ELSE validateRequirements(content)

\* loadRequirements(path): a missing file is an empty list, any other error
\* is thrown again
loadRequirements(file) ==
    IF file.read = "NotFound" THEN [throws |-> <<>>, packages |-> <<>>]
    ELSE IF file.read # "ok" THEN [throws |-> <<file.read>>, packages |-> <<>>]
    ELSE parseRequirementsContent(file)

-----------------------------------------------------------------------------
(* The host, the repository and the requirements the model runs on *)

\* managers whose command the probe may find
ProbePool == {"homebrew", "apt"}

\* the hosts the orchestrator runs on: the other commands are missing
HostProbes ==
    {h \in [Probed -> {"found", "missing"}] : \A m \in Probed \ ProbePool : h[m] = "missing"}

\* what isInstalled / getInstalledVersion may observe
HostPool ==
    {[installed |-> FALSE, installedVersion |-> Absent]}
    \cup {[installed |-> TRUE, installedVersion |-> v] : v \in {<<"1">>}}

\* messages a backend's install may fail with (BackendError)
BackendErrors == {"Command failed"}

\* the recipes of the repository index, by name
Repo ==
    (<<"a">> :> [package |-> <<"a">>,
                 installMethods |-> ("homebrew" :> "m1" @@ "apt" :> "m2" @@ "script" :> "m3")])
    @@ (<<"b">> :> [package |-> <<"b">>,
                    installMethods |-> ("homebrew" :> "m1")])
    @@ (<<"b", "@", "a">> :> [package |-> <<"b", "@", "a">>,
                              installMethods |-> ("script" :> "m3")])

\* requirement strings
SpecPool ==
    { <<"a", "@", "v", "1">>, <<"b">>, <<"b", "@", "a", "@", "2">> }

SeqsUpTo(S, n) == UNION {[1..m -> S] : m \in 0..n}

-----------------------------------------------------------------------------
(* manager.ts *)

\* Repository.fetchRecipe: <<the recipe>>, or <<>> when it throws (not in the
\* index, or the fetch failed)
fetchRecipe(name, fetchOk) ==
    IF name \in DOMAIN Repo /\ fetchOk THEN <<Repo[name]>> ELSE <<>>

\* a getRecipe that asks the repository on every call
getRecipeFetchesAlways(cache, name) == TRUE

\* Manager.getRecipe: whether the call asks the repository (!this.recipes.has)
getRecipeFetches(cache, name) == name \notin DOMAIN cache

\* Manager.getRecipe: the repository calls made so far, after the call
getRecipeFetched(log, cache, name, fetchOk) ==
    IF getRecipeFetches(cache, name)
    THEN Append(log, [name |-> name, ok |-> fetchRecipe(name, fetchOk) # <<>>])
    ELSE log

\* Manager.getRecipe: the cache after the call
getRecipeCache(cache, name, fetchOk) ==
    IF ~getRecipeFetches(cache, name) THEN cache
    ELSE IF fetchRecipe(name, fetchOk) = <<>> THEN cache
    ELSE (name :> fetchRecipe(name, fetchOk)[1]) @@ cache

\* Manager.getRecipe: whether the call throws
getRecipeThrows(cache, name, fetchOk) ==
    getRecipeFetches(cache, name) /\ fetchRecipe(name, fetchOk) = <<>>

\* rank of a character in collation order
charRank(c) ==
    CASE c = " " -> 0
      [] c = "@" -> 1
      [] c = "1" -> 2
      [] c = "2" -> 3
      [] c = "a" -> 4
      [] c = "b" -> 5
      [] c = "c" -> 6
      [] c = "v" -> 7

\* a.localeCompare(b)
RECURSIVE localeCompare(_, _)
localeCompare(a, b) ==
    IF Len(a) = 0 /\ Len(b) = 0 THEN 0
    ELSE IF Len(a) = 0 THEN -1
    ELSE IF Len(b) = 0 THEN 1
    ELSE IF charRank(a[1]) < charRank(b[1]) THEN -1
    ELSE IF charRank(a[1]) > charRank(b[1]) THEN 1
    ELSE localeCompare(Tail(a), Tail(b))

\* the batch left in requirements order
unsortedToInstall(s) == s

\* toInstall.sort((a, b) => a.name.localeCompare(b.name)), stable
RECURSIVE sortToInstall(_)
sortToInstall(s) ==
    IF Len(s) <= 1 THEN s
    ELSE LET head  == sortToInstall(SubSeq(s, 1, Len(s) - 1))
             x     == s[Len(s)]
             stops == {p \in 1..Len(head) : localeCompare(head[p].name, x.name) <= 0}
             p     == IF stops = {} THEN 0 ELSE SetMax(stops)
         IN SubSeq(head, 1, p) \o <<x>> \o SubSeq(head, p + 1, Len(head))

\* the first loop body with the mismatch hold dropped: an installed tool of
\* another version is treated as with --ignore-local
examineManagerAlwaysIgnoreLocal(spec, cache, throws, host) ==
    LET parsed  == parsePackageSpec(spec)
        check   == checkVersion(host, parsed.version)
        entry   == [spec |-> spec, name |-> parsed.name, version |-> parsed.version]
        none    == [toInstall |-> <<>>, errors |-> <<>>, versionMismatches |-> <<>>]
        wanted  == ~check.installed \/ (Truthy(parsed.version) /\ ~check.versionMatch)
    IN IF throws
       THEN [none EXCEPT !.errors = <<[name |-> parsed.name, error |-> "recipe unavailable"]>>]
       ELSE IF wanted /\ getInstallMethod(cache[parsed.name], env) # Absent
       THEN [none EXCEPT !.toInstall = <<entry>>]
       ELSE IF wanted
       THEN [none EXCEPT !.errors =
                <<[name |-> parsed.name, error |-> "no installation method available"]>>]
       ELSE none

\* sync, first loop body, src/src/manager.ts: what one requirement adds to
\* toInstall, errors and versionMismatches
examineManager(spec, cache, throws, host) ==
    LET parsed          == parsePackageSpec(spec)
        name            == parsed.name
        requiredVersion == parsed.version
        check           == checkVersion(host, requiredVersion)
        entry           == [spec |-> spec, name |-> name, version |-> requiredVersion]
        noMethod        == [name |-> name, error |-> "no installation method available"]
        none            == [toInstall |-> <<>>, errors |-> <<>>, versionMismatches |-> <<>>]
    IN IF throws
       THEN [none EXCEPT !.errors = <<[name |-> name, error |-> "recipe unavailable"]>>]
       ELSE IF ~check.installed
       THEN IF getInstallMethod(cache[name], env) # Absent
            THEN [none EXCEPT !.toInstall = <<entry>>]
            ELSE [none EXCEPT !.errors = <<noMethod>>]
       ELSE IF Truthy(requiredVersion) /\ ~check.versionMatch
       THEN IF ignoreLocal
            THEN IF getInstallMethod(cache[name], env) # Absent
                 THEN [none EXCEPT !.toInstall = <<entry>>]
                 ELSE [none EXCEPT !.errors = <<noMethod>>]
            ELSE [none EXCEPT !.versionMismatches = <<name>>]
       ELSE none

\* the first loop body without the getInstallMethod test
examinePart005NoMethodCheck(spec, cache, throws) ==
    LET parsed == parsePackageSpec(spec)
        none   == [toInstall |-> <<>>, errors |-> <<>>, versionMismatches |-> <<>>]
    IN IF throws
       THEN [none EXCEPT !.errors = <<[name |-> parsed.name, error |-> "recipe unavailable"]>>]
       ELSE [none EXCEPT !.toInstall =
                <<[spec |-> spec, name |-> parsed.name, version |-> parsed.version]>>]

\* sync, first loop body, src/unnamed/part_005
examinePart005(spec, cache, throws) ==
    LET parsed == parsePackageSpec(spec)
        name   == parsed.name
        entry  == [spec |-> spec, name |-> name, version |-> parsed.version]
        none   == [toInstall |-> <<>>, errors |-> <<>>, versionMismatches |-> <<>>]
    IN IF throws
       THEN [none EXCEPT !.errors = <<[name |-> name, error |-> "recipe unavailable"]>>]
       ELSE IF getInstallMethod(cache[name], env) # Absent
       THEN [none EXCEPT !.toInstall = <<entry>>]
       ELSE [none EXCEPT !.errors =
                <<[name |-> name, error |-> "no installation method available"]>>]

\* what one iteration of sync's first loop observed (whether getRecipe threw,
\* the checkVersion report if one was obtained, whether the recipe has a
\* method for an available manager) and where it put the requirement
observation(spec, throws, host, cache, add) ==
    LET parsed == parsePackageSpec(spec)
    IN [spec      |-> spec,
        name      |-> parsed.name,
        version   |-> parsed.version,
        throws    |-> throws,
        check     |-> IF revision = "manager.ts" /\ ~throws
                      THEN <<checkVersion(host, parsed.version)>> ELSE <<>>,
        hasMethod |-> ~throws /\ getInstallMethod(cache[parsed.name], env) # Absent,
        put       |-> IF add.toInstall # <<>> THEN "toInstall"
                      ELSE IF add.errors # <<>> THEN "errors"
                      ELSE IF add.versionMismatches # <<>> THEN "versionMismatches"
                      ELSE "none"]

\* installOne: requiredVersion || version
effectiveVersionOf(requiredVersion, version) ==
    IF Truthy(requiredVersion) THEN requiredVersion ELSE version

localGateVersionBlind(ignore, host, effective) ==
    IF ignore THEN "install"
    ELSE LET check == checkVersion(host, effective)
         IN IF check.installed /\ ~Truthy(effective) THEN "skip" ELSE "install"

\* installOne's local-state gate: "install", "skip" (already installed) or
\* "mismatch" (installed, other version)
localGate(ignore, host, effective) ==
    IF ignore THEN "install"
    ELSE LET check == checkVersion(host, effective)
         IN IF check.installed
            THEN IF Truthy(effective) /\ ~check.versionMatch THEN "mismatch" ELSE "skip"
            ELSE "install"

\* installOne's call of the resolver: manager.ts passes no version, part_005
\* passes the effective version
resolveCandidates(rev, recipe, availableManagers, effective) ==
    IF rev = "manager.ts"
    THEN getInstallMethods(recipe, availableManagers, Absent)
    ELSE getInstallMethods(recipe, availableManagers, effective)

noMethodAvailableNever(candidates) == FALSE

\* methods.length === 0
noMethodAvailable(candidates) == Len(candidates) = 0

candidateAtFromEnd(candidates, idx) == candidates[Len(candidates) - idx]

candidateAtFirst(candidates, idx) == candidates[1]

\* the candidate of loop iteration idx (0-based)
candidateAt(candidates, idx) == candidates[idx + 1]

fallbacksOfAll(candidates) == [n \in 1..Len(candidates) |-> candidates[n][1]]

\* methods.slice(1).map(([m]) => m)
fallbacksOf(candidates) == [n \in 1..(Len(candidates) - 1) |-> candidates[n + 1][1]]

recordFailureLastOnly(errs, manager, message) ==
    <<[manager |-> manager, error |-> message]>>

\* errors.push({ manager, error })
recordFailure(errs, manager, message) ==
    Append(errs, [manager |-> manager, error |-> message])

afterInstallNoReturn(ok, idx, n) ==
    IF idx + 1 < n THEN "next"
    ELSE IF ok THEN "return"
    ELSE "throw"

\* what the loop does once backend.install settled: "return" on success, else
\* "next" candidate, or "throw" after the last one
afterInstall(ok, idx, n) ==
    IF ok THEN "return"
    ELSE IF idx + 1 < n THEN "next"
    ELSE "throw"

\* a JavaScript value of the argument list of a call
JsBoolean(b) == [type |-> "boolean", truthy |-> b, string |-> <<>>]
JsString(str) == [type |-> IF str = Absent THEN "undefined" ELSE "string",
                  truthy |-> Truthy(str), string |-> str]

\* installOne: backend.install(packageName, method, dryRun, effectiveVersion)
installArguments(name, method, dry, effective) ==
    <<JsString(name), JsString(<<method>>), JsBoolean(dry), JsString(effective)>>

\* ScriptBackend.install(pkgName, method, version?): the third argument of
\* the call is bound to `version`, a fourth one is dropped.  The value of
\* VERSION the script runs with, Absent when the variable is not set
\* (`if (version) env["VERSION"] = version`): a boolean true would be
\* stringified by the environment
scriptVersionEnv(arguments) ==
    LET version == arguments[3]
    IN IF ~version.truthy THEN Absent
       ELSE IF version.type = "boolean" THEN <<"t", "r", "u", "e">>
       ELSE version.string

\* the record of a finished installOne call
outcomeRecord(name, effective, outcome, reason, check, candidates, errs, preview) ==
    [call |-> j, name |-> name, version |-> effective, outcome |-> outcome,
     reason |-> reason, check |-> check, methods |-> candidates, errors |-> errs,
     preview |-> preview]

NoPreview == [wouldInstall |-> "none", fallbacks |-> <<>>]

\* what sync prints when the batch is empty: manager.ts looks at
\* versionMismatches only; part_005 prints nothing
syncNotice(rev, mismatches) ==
    IF rev # "manager.ts" THEN <<>>
    ELSE IF Len(mismatches) > 0 THEN <<"Some packages have version mismatches.">>
    ELSE <<"All required packages are already installed!">>

\* what sync prints after the install loop: part_005 prints "Sync complete:"
\* with the number of packages installed successfully and the number failed
\* (each line only when the number is positive); manager.ts prints nothing
syncSummary(rev, ok, bad) ==
    IF rev = "part_005"
    THEN <<[succeeded |-> Len(ok), failed |-> Len(bad)]>>
    ELSE <<>>

\* sync's install loop when installOne returns
syncAfterReturn(rec) ==
    /\ results' = Append(results, rec)
    /\ j' = j + 1
    /\ pc' = "install"
    /\ succeeded' = IF revision = "part_005"
                    THEN Append(succeeded, toInstall[j + 1].spec)
                    ELSE succeeded
    /\ UNCHANGED <<k, toInstall, syncErrors, versionMismatches, examined, failed,
                   exitCode, thrown, summary, notice>>

\* sync's install loop when installOne throws: manager.ts has no try/catch
\* around the call, so the error leaves sync and main returns 1; part_005
\* catches it, records the failure and goes on
syncAfterThrow(rec) ==
    /\ results' = Append(results, rec)
    /\ IF revision = "manager.ts"
       THEN /\ thrown' = <<rec.reason>>
            /\ exitCode' = 1
            /\ pc' = "exit"
            /\ UNCHANGED <<j, failed>>
       ELSE /\ failed' = Append(failed, [spec |-> toInstall[j + 1].spec, error |-> rec.reason])
            /\ j' = j + 1
            /\ pc' = "install"
            /\ UNCHANGED <<thrown, exitCode>>
    /\ UNCHANGED <<k, toInstall, syncErrors, versionMismatches, examined, succeeded,
                   summary, notice>>

-----------------------------------------------------------------------------
(* backends: mod.ts, AptBackend, PacmanBackend *)

\* the backends that keep a one-time package-index update flag
NativeBackends == {"apt", "pacman"}

\* the install methods handed to a backend: every field is optional
InstallMethods ==
    { [pkgName |-> Absent, packageName |-> Absent, tap |-> Absent, cask |-> FALSE,
       postInstall |-> Absent],
      [pkgName |-> <<"p">>, packageName |-> <<"p">>, tap |-> <<"t">>, cask |-> TRUE,
       postInstall |-> <<"s">>] }

\* the exit of each external command of one install call: TRUE is exit code 0
Exits == [tap : BOOLEAN, update : BOOLEAN, install : BOOLEAN, post : BOOLEAN]

\* the exit status of a command: none in a dry run
exitOf(dry, exitOk) == IF dry THEN "none" ELSE IF exitOk THEN "zero" ELSE "nonzero"

\* runCommand(cmd, dryRun); cmd is a list of words, a word a sequence of
\* pieces of text.  In a dry run the command is only printed; else it
\* is executed and a non-zero exit throws BackendError
runCommand(cmd, dry, exitOk) ==
    [issued |-> <<[cmd |-> cmd, executed |-> ~dry, exit |-> exitOf(dry, exitOk)]>>,
     throws |-> ~dry /\ ~exitOk,
     error |-> IF ~dry /\ ~exitOk THEN "Command failed" ELSE "none"]

\* runPostInstall without the exit-code test
runPostInstallIgnoringExit(method, dry, exitOk) ==
    IF ~Truthy(method.postInstall)
    THEN [issued |-> <<>>, throws |-> FALSE, error |-> "none"]
    ELSE [issued |-> <<[cmd |-> <<<<"sh">>, <<"-c">>, method.postInstall>>,
                        executed |-> ~dry, exit |-> exitOf(dry, exitOk)]>>,
          throws |-> FALSE, error |-> "none"]

\* runPostInstall(method, dryRun)
runPostInstall(method, dry, exitOk) ==
    IF ~Truthy(method.postInstall)
    THEN [issued |-> <<>>, throws |-> FALSE, error |-> "none"]
    ELSE [issued |-> <<[cmd |-> <<<<"sh">>, <<"-c">>, method.postInstall>>,
                        executed |-> ~dry, exit |-> exitOf(dry, exitOk)]>>,
          throws |-> ~dry /\ ~exitOk,
          error |-> IF ~dry /\ ~exitOk THEN "Post-install script failed" ELSE "none"]

\* the body shared by AptBackend.install and PacmanBackend.install: the index
\* update guarded by the static flag, the install command, the post-install
\* script.  The flag is assigned after the update command returned.
nativeInstall(flag, updateCmd, installCmd, method, dry, exits) ==
    LET update  == runCommand(updateCmd, dry, exits.update)
        install == runCommand(installCmd, dry, exits.install)
        post    == runPostInstall(method, dry, exits.post)
        first   == IF flag THEN <<>> ELSE update.issued
    IN IF ~flag /\ update.throws
       THEN [cacheUpdated |-> flag, issued |-> first, throws |-> TRUE,
             error |-> update.error]
       ELSE IF install.throws
       THEN [cacheUpdated |-> TRUE, issued |-> first \o install.issued, throws |-> TRUE,
             error |-> install.error]
       ELSE [cacheUpdated |-> TRUE, issued |-> first \o install.issued \o post.issued,
             throws |-> post.throws, error |-> post.error]

\* method.pkgName || pkgName
pkgNameOf(method, pkgName) ==
    IF Truthy(method.pkgName) THEN method.pkgName ELSE pkgName

\* AptBackend.install(pkgName, method, dryRun, version)
AptBackendInstall(flag, pkgName, method, dry, version, exits) ==
    LET name    == pkgNameOf(method, pkgName)
        pkgSpec == IF Truthy(version) THEN name \o <<"=">> \o version ELSE name
    IN nativeInstall(flag, <<<<"sudo">>, <<"apt-get">>, <<"update">>>>,
                     <<<<"sudo">>, <<"apt-get">>, <<"install">>, <<"-y">>, pkgSpec>>, method, dry, exits)

\* PacmanBackend.install(pkgName, method, dryRun, version): the version only
\* produces a warning
PacmanBackendInstall(flag, pkgName, method, dry, version, exits) ==
    LET name == pkgNameOf(method, pkgName)
    IN nativeInstall(flag, <<<<"sudo">>, <<"pacman">>, <<"-Sy">>>>,
                     <<<<"sudo">>, <<"pacman">>, <<"-S">>, <<"--noconfirm">>, name>>, method, dry, exits)

\* HomebrewBackend.install(packageName, method, dryRun, version): the version
\* only produces a warning; an optional `brew tap`, then `brew install`
\* (with --cask for a cask), then the post-install script
HomebrewBackendInstall(pkgName, method, dry, version, exits) ==
    LET name    == IF Truthy(method.packageName) THEN method.packageName ELSE pkgName
        tap     == runCommand(<<<<"brew">>, <<"tap">>, method.tap>>, dry, exits.tap)
        cmd     == <<<<"brew">>, <<"install">>>>
                      \o (IF method.cask THEN <<<<"--cask">>>> ELSE <<>>) \o <<name>>
        install == runCommand(cmd, dry, exits.install)
        post    == runPostInstall(method, dry, exits.post)
        first   == IF Truthy(method.tap) THEN tap.issued ELSE <<>>
    IN IF Truthy(method.tap) /\ tap.throws
       THEN [issued |-> first, throws |-> TRUE, error |-> tap.error]
       ELSE IF install.throws
       THEN [issued |-> first \o install.issued, throws |-> TRUE, error |-> install.error]
       ELSE [issued |-> first \o install.issued \o post.issued,
             throws |-> post.throws, error |-> post.error]

-----------------------------------------------------------------------------
(* Initial states *)

BackendIdle ==
    /\ cacheUpdated = [backend \in NativeBackends |-> FALSE]
    /\ commands = <<>>
    /\ installed = <<>>

QueryIdle ==
    /\ argVersionCommand = Absent
    /\ argRuns = [c \in QueryCommands |-> NotSpawned]
    /\ gotVersion = <<>>

PureIdle ==
    /\ argHost = [installed |-> FALSE, installedVersion |-> Absent]
    /\ argRequired = Absent
    /\ checked = <<>>
    /\ argSpec = <<>>
    /\ parsedSpec = <<>>
    /\ BackendIdle
    /\ QueryIdle

ResolverIdle ==
    /\ argRecipe = [installMethods |-> <<>>]
    /\ argManagers = <<>>
    /\ argVersion = Absent
    /\ resolved = <<>>
    /\ firstMethod = <<>>
    /\ PureIdle

FrameIdle ==
    /\ packageName = <<>>
    /\ effectiveVersion = Absent
    /\ versionCheck = <<>>
    /\ methods = <<>>
    /\ i = 0
    /\ errors = <<>>

SyncIdle ==
    /\ k = 0
    /\ toInstall = <<>>
    /\ syncErrors = <<>>
    /\ versionMismatches = <<>>
    /\ examined = <<>>
    /\ j = 0
    /\ succeeded = <<>>
    /\ failed = <<>>
    /\ exitCode = Absent
    /\ thrown = Absent
    /\ summary = <<>>
    /\ notice = <<>>
    /\ installLog = <<>>
    /\ results = <<>>

\* Manager.create, then main dispatches to sync
Init ==
    /\ revision \in {"manager.ts", "part_005"}
    /\ dryRun \in BOOLEAN
    /\ ignoreLocal \in (IF revision = "manager.ts" THEN BOOLEAN ELSE {FALSE})
    /\ probes \in HostProbes
    /\ env = detectEnvironment(FoundCommands(probes))
    /\ requirements \in SeqsUpTo(SpecPool, MaxReqs)
    /\ document = documentOf(requirements)
    /\ recipes = <<>>
    /\ fetched = <<>>
    /\ pc = "main"
    /\ SyncIdle
    /\ FrameIdle
    /\ ResolverIdle

-----------------------------------------------------------------------------
(* main and sync *)

\* main: case "sync"; sync returns at once on an empty requirements list
Main ==
    /\ pc = "main"
    /\ IF Len(requirements) = 0
       THEN /\ pc' = "exit" /\ exitCode' = 0
            /\ notice' = <<"No packages in requirements.toml">>
       ELSE pc' = "examine" /\ UNCHANGED <<exitCode, notice>>
    /\ UNCHANGED <<managerVars, k, toInstall, syncErrors, versionMismatches, examined,
                   j, succeeded, failed, thrown, summary, frameVars, effectVars, resolverVars>>

\* sync: one iteration of the loop over requirements.packages
Examine ==
    /\ pc = "examine"
    /\ k < Len(requirements)
    /\ \E fetchOk \in BOOLEAN, host \in HostPool :
         LET spec   == requirements[k + 1]
             name   == parsePackageSpec(spec).name
             throws == getRecipeThrows(recipes, name, fetchOk)
             cache  == getRecipeCache(recipes, name, fetchOk)
             add    == IF revision = "manager.ts"
                       THEN examineManager(spec, cache, throws, host)
                       ELSE examinePart005(spec, cache, throws)
         IN /\ recipes' = cache
            /\ fetched' = getRecipeFetched(fetched, recipes, name, fetchOk)
            /\ toInstall' = toInstall \o add.toInstall
            /\ syncErrors' = syncErrors \o add.errors
            /\ versionMismatches' = versionMismatches \o add.versionMismatches
            /\ examined' = Append(examined,
                    observation(spec, throws, host, cache, add))
    /\ k' = k + 1
    /\ UNCHANGED <<revision, dryRun, ignoreLocal, probes, env, document, requirements, pc, j,
                   succeeded,
                   failed, exitCode, thrown, summary, notice, frameVars, effectVars,
                   resolverVars>>

\* sync: after the first loop: report warnings, return if nothing to install,
\* else sort the batch by name
Plan ==
    /\ pc = "examine"
    /\ k = Len(requirements)
    /\ IF Len(toInstall) = 0
       THEN /\ pc' = "exit" /\ exitCode' = 0 /\ UNCHANGED toInstall
            /\ notice' = syncNotice(revision, versionMismatches)
       ELSE /\ pc' = "install" /\ toInstall' = sortToInstall(toInstall)
            /\ UNCHANGED <<exitCode, notice>>
    /\ UNCHANGED <<managerVars, k, syncErrors, versionMismatches, examined, j,
                   succeeded, failed, thrown, summary, frameVars, effectVars, resolverVars>>

\* sync calls installOne for the next batch entry; installOne runs up to its
\* loop: it parses the name, gets the recipe, applies the local-state gate
\* (manager.ts only) and resolves the candidates.  When it returns or throws
\* its frame is gone.
InstallOne ==
    /\ pc = "install"
    /\ j < Len(toInstall)
    /\ \E fetchOk \in BOOLEAN, host \in HostPool :
         LET entry     == toInstall[j + 1]
             parsed    == parsePackageSpec(entry.name)
             effective == effectiveVersionOf(entry.version, parsed.version)
             throws    == getRecipeThrows(recipes, parsed.name, fetchOk)
             cache     == getRecipeCache(recipes, parsed.name, fetchOk)
             gated     == revision = "manager.ts" /\ ~ignoreLocal
             gate      == IF revision = "manager.ts"
                          THEN localGate(ignoreLocal, host, effective)
                          ELSE "install"
             check     == IF gated THEN <<checkVersion(host, effective)>> ELSE <<>>
             found     == resolveCandidates(revision, cache[parsed.name], env, effective)
         IN /\ recipes' = cache
            /\ fetched' = getRecipeFetched(fetched, recipes, parsed.name, fetchOk)
            /\ IF throws
               THEN /\ syncAfterThrow(outcomeRecord(parsed.name, effective, "Failed",
                          "recipe unavailable", <<>>, <<>>, <<>>, NoPreview))
                    /\ UNCHANGED frameVars
               ELSE IF gate # "install"
               THEN /\ syncAfterReturn(outcomeRecord(parsed.name, effective, "Skipped",
                          IF gate = "mismatch" THEN "version mismatch"
                          ELSE "already installed", check, <<>>, <<>>, NoPreview))
                    /\ UNCHANGED frameVars
               ELSE IF noMethodAvailable(found)
               THEN /\ syncAfterThrow(outcomeRecord(parsed.name, effective, "Failed",
                          "no installation method available", check, found, <<>>,
                          NoPreview))
                    /\ UNCHANGED frameVars
               ELSE IF Len(found) = 0
               THEN /\ syncAfterThrow(outcomeRecord(parsed.name, effective, "Failed",
                          "all installation methods failed", check, found, <<>>,
                          NoPreview))
                    /\ UNCHANGED frameVars
               ELSE /\ packageName' = parsed.name
                    /\ effectiveVersion' = effective
                    /\ versionCheck' = check
                    /\ methods' = found
                    /\ i' = 0
                    /\ errors' = <<>>
                    /\ pc' = "attempt"
                    /\ UNCHANGED <<k, toInstall, syncErrors, versionMismatches,
                                   examined, j, succeeded, failed, exitCode, thrown, summary,
                                   notice,
                                   results>>
    /\ UNCHANGED <<revision, dryRun, ignoreLocal, probes, env, document, requirements,
                   installLog, resolverVars>>

\* installOne's frame is discarded
frameGone ==
    /\ packageName' = <<>>
    /\ effectiveVersion' = Absent
    /\ versionCheck' = <<>>
    /\ methods' = <<>>
    /\ i' = 0
    /\ errors' = <<>>

\* installOne: one iteration of the loop over the candidates.  In dry-run mode
\* it prints the first candidate and the fallbacks and returns; otherwise it
\* invokes the backend's install, which succeeds or throws.
Attempt ==
    /\ pc = "attempt"
    /\ i < Len(methods)
    /\ LET manager == candidateAt(methods, i)[1]
       IN IF dryRun
          THEN /\ syncAfterReturn(outcomeRecord(packageName, effectiveVersion, "DryRun",
                     "would install", versionCheck, methods, errors,
                     [wouldInstall |-> manager, fallbacks |-> fallbacksOf(methods)]))
               /\ frameGone
               /\ UNCHANGED installLog
          ELSE \E ok \in BOOLEAN, message \in BackendErrors :
                 LET errs == IF ok THEN errors ELSE recordFailure(errors, manager, message)
                     step == afterInstall(ok, i, Len(methods))
                 IN /\ installLog' = Append(installLog,
                          [call |-> j, manager |-> manager, ok |-> ok,
                           version |-> effectiveVersion,
                           scriptVersion |->
                              IF manager = "script"
                              THEN scriptVersionEnv(installArguments(packageName,
                                       candidateAt(methods, i)[2], dryRun,
                                       effectiveVersion))
                              ELSE Absent,
                           error |-> IF ok THEN "none" ELSE message])
                    /\ IF step = "return"
                       THEN /\ syncAfterReturn(outcomeRecord(packageName,
                                  effectiveVersion, "Succeeded", "installed",
                                  versionCheck, methods, errs, NoPreview))
                            /\ frameGone
                       ELSE IF step = "next"
                       THEN /\ i' = i + 1
                            /\ errors' = errs
                            /\ UNCHANGED <<syncVars, results, packageName,
                                           effectiveVersion, versionCheck, methods>>
                       ELSE /\ syncAfterThrow(outcomeRecord(packageName,
                                  effectiveVersion, "Failed",
                                  "all installation methods failed", versionCheck,
                                  methods, errs, NoPreview))
                            /\ frameGone
    /\ UNCHANGED <<managerVars, resolverVars>>

\* sync: after the install loop.  manager.ts returns; part_005 prints the
\* summary and throws if any package failed.  main returns 1 on a throw.
Finish ==
    /\ pc = "install"
    /\ j = Len(toInstall)
    /\ pc' = "exit"
    /\ IF revision = "part_005" /\ Len(failed) > 0
       THEN thrown' = <<"failed to install packages">> /\ exitCode' = 1
       ELSE exitCode' = 0 /\ UNCHANGED thrown
    /\ summary' = syncSummary(revision, succeeded, failed)
    /\ UNCHANGED <<managerVars, k, toInstall, syncErrors, versionMismatches, examined,
                   j, succeeded, failed, notice, frameVars, effectVars, resolverVars>>

Next == Main \/ Examine \/ Plan \/ InstallOne \/ Attempt \/ Finish

Spec == Init /\ [][Next]_vars

-----------------------------------------------------------------------------
(* main from its start: Manager.create on a requirements file, then sync *)

\* elements a packages array is made of
ItemPool ==
    { Item("string", <<"a", "@", "v", "1">>), Item("string", <<"b">>),
      Item("string", <<" ">>), Item("number", <<"1">>) }

\* the requirements files main is started on
Documents ==
    { NoDocument,
      Document("PermissionDenied", TRUE, "undefined", <<>>),
      Document("ok", FALSE, "undefined", <<>>),
      Document("ok", TRUE, "undefined", <<>>),
      Document("ok", TRUE, "other", <<>>) }
    \cup { Document("ok", TRUE, "array", items) :
              items \in SeqsUpTo(ItemPool, MaxPackages) }

CreateInit ==
    /\ revision \in {"manager.ts", "part_005"}
    /\ dryRun \in BOOLEAN
    /\ ignoreLocal \in (IF revision = "manager.ts" THEN BOOLEAN ELSE {FALSE})
    /\ probes \in HostProbes
    /\ env = <<>>
    /\ document \in Documents
    /\ requirements = <<>>
    /\ recipes = <<>>
    /\ fetched = <<>>
    /\ pc = "create"
    /\ SyncIdle
    /\ FrameIdle
    /\ ResolverIdle

\* main: Manager.create loads the requirements, then detects the environment;
\* an error thrown by loadRequirements is caught by main, which prints it and
\* returns 1
Create ==
    /\ pc = "create"
    /\ LET loaded == loadRequirements(document)
       IN IF loaded.throws # <<>>
          THEN /\ thrown' = loaded.throws
               /\ exitCode' = 1
               /\ pc' = "exit"
               /\ UNCHANGED <<requirements, env>>
          ELSE /\ requirements' = loaded.packages
               /\ env' = detectEnvironment(FoundCommands(probes))
               /\ pc' = "main"
               /\ UNCHANGED <<thrown, exitCode>>
    /\ UNCHANGED <<revision, dryRun, ignoreLocal, probes, document, recipes, fetched,
                   k, toInstall, syncErrors, versionMismatches, examined, j, succeeded,
                   failed, summary, notice, frameVars, effectVars, resolverVars>>

CreateNext == Create \/ Main \/ Examine \/ Plan \/ InstallOne \/ Attempt \/ Finish

CreateSpec == CreateInit /\ [][CreateNext]_vars

-----------------------------------------------------------------------------
(* The resolver called on its own *)

\* managers the resolver's inputs are drawn from
ResolverManagers == {"homebrew", "apt", "pacman", "script", "cargo"}

\* install methods a recipe may hold
MethodPool == {"m1", "m2"}

RecipePool ==
    {[installMethods |-> f] :
        f \in UNION {[keys -> MethodPool] : keys \in SUBSET ResolverManagers}}

\* lists without repetition, as an Environment's are
ManagerLists ==
    {l \in SeqsUpTo(ResolverManagers, MaxLen) :
        \A a, b \in 1..Len(l) : a # b => l[a] # l[b]}

ResolverInit ==
    /\ revision = "manager.ts"
    /\ dryRun = FALSE
    /\ ignoreLocal = FALSE
    /\ probes = [m \in Probed |-> "missing"]
    /\ env = <<>>
    /\ document = NoDocument
    /\ requirements = <<>>
    /\ recipes = <<>>
    /\ fetched = <<>>
    /\ pc = "idle"
    /\ SyncIdle
    /\ FrameIdle
    /\ argRecipe \in RecipePool
    /\ argManagers \in ManagerLists
    /\ argVersion \in {Absent, <<>>, <<"1">>}
    /\ resolved = <<>>
    /\ firstMethod = <<>>
    /\ PureIdle

\* getInstallMethods(recipe, availableManagers, version)
Resolve ==
    /\ pc = "idle"
    /\ Len(resolved) < MaxResolves
    /\ resolved' = Append(resolved, getInstallMethods(argRecipe, argManagers, argVersion))
    /\ argManagers' =
          getInstallMethodsArrays(argRecipe, argManagers, argVersion).availableManagers
    /\ UNCHANGED <<managerVars, syncVars, frameVars, effectVars, argRecipe,
                   argVersion, firstMethod, argHost, argRequired, checked, argSpec,
                   parsedSpec, backendVars, queryVars>>

\* getInstallMethod(recipe, availableManagers), after the getInstallMethods
\* calls: it reads its arguments and returns a pair or null
GetInstallMethod ==
    /\ pc = "idle"
    /\ Len(resolved) = MaxResolves
    /\ firstMethod = <<>>
    /\ firstMethod' = <<getInstallMethod(argRecipe, argManagers)>>
    /\ UNCHANGED <<managerVars, syncVars, frameVars, effectVars, argRecipe,
                   argManagers, argVersion, resolved, argHost, argRequired, checked,
                   argSpec, parsedSpec, backendVars, queryVars>>

\* checkVersion(recipe, requiredVersion) on the same recipe, on a host where
\* the tool is or is not installed: it reads recipe.package only
CheckRecipeVersion ==
    /\ pc = "idle"
    /\ firstMethod # <<>>
    /\ checked = <<>>
    /\ \E host \in HostPool :
          /\ argHost' = host
          /\ checked' = <<checkVersion(host, argVersion)>>
    /\ UNCHANGED <<managerVars, syncVars, frameVars, effectVars, argRecipe,
                   argManagers, argVersion, resolved, firstMethod, argRequired,
                   argSpec, parsedSpec, backendVars, queryVars>>

ResolverNext == Resolve \/ GetInstallMethod \/ CheckRecipeVersion

ResolverSpec == ResolverInit /\ [][ResolverNext]_vars

-----------------------------------------------------------------------------
(* detectEnvironment called on its own *)

DetectInit ==
    /\ revision = "manager.ts"
    /\ dryRun = FALSE
    /\ ignoreLocal = FALSE
    /\ probes \in [Probed -> ProbeOutcomes]
    /\ env = <<>>
    /\ document = NoDocument
    /\ requirements = <<>>
    /\ recipes = <<>>
    /\ fetched = <<>>
    /\ pc = "detect"
    /\ SyncIdle
    /\ FrameIdle
    /\ ResolverIdle

\* detectEnvironment()
Detect ==
    /\ pc = "detect"
    /\ env' = detectEnvironment(FoundCommands(probes))
    /\ pc' = "detected"
    /\ UNCHANGED <<revision, dryRun, ignoreLocal, probes, document, requirements, recipes,
                   fetched, k,
                   toInstall, syncErrors, versionMismatches, examined, j, succeeded,
                   failed, exitCode, thrown, summary, notice, frameVars, effectVars,
                   resolverVars>>

DetectNext == Detect

DetectSpec == DetectInit /\ [][DetectNext]_vars

-----------------------------------------------------------------------------
(* checkVersion called on its own *)

\* characters of the version strings
VersionChars == {"1", ".", "v", "V", " "}

\* the shape of what extractVersion returns: two or three groups of digits
\* separated by dots
IsVersionText(str) ==
    /\ Len(str) >= 3
    /\ \A n \in 1..Len(str) : str[n] \in {"1", "."}
    /\ str[1] # "." /\ str[Len(str)] # "."
    /\ \A n \in 1..(Len(str) - 1) : ~(str[n] = "." /\ str[n + 1] = ".")
    /\ Cardinality({n \in 1..Len(str) : str[n] = "."}) \in {1, 2}

\* hosts: tool missing; installed, no version extractable; installed with a
\* version extractVersion can return
VersionHosts ==
    {[installed |-> FALSE, installedVersion |-> Absent],
     [installed |-> TRUE, installedVersion |-> Absent]}
    \cup {[installed |-> TRUE, installedVersion |-> v] :
             v \in {str \in SeqsUpTo(VersionChars, MaxVersionLen) : IsVersionText(str)}}

VersionInit ==
    /\ revision = "manager.ts"
    /\ dryRun = FALSE
    /\ ignoreLocal = FALSE
    /\ probes = [m \in Probed |-> "missing"]
    /\ env = <<>>
    /\ document = NoDocument
    /\ requirements = <<>>
    /\ recipes = <<>>
    /\ fetched = <<>>
    /\ pc = "check"
    /\ SyncIdle
    /\ FrameIdle
    /\ argRecipe = [installMethods |-> <<>>]
    /\ argManagers = <<>>
    /\ argVersion = Absent
    /\ resolved = <<>>
    /\ firstMethod = <<>>
    /\ argHost \in VersionHosts
    /\ argRequired \in {Absent} \cup SeqsUpTo(VersionChars, MaxVersionLen)
    /\ checked = <<>>
    /\ argSpec = <<>>
    /\ parsedSpec = <<>>
    /\ BackendIdle
    /\ QueryIdle

\* checkVersion(recipe, requiredVersion)
CheckVersion ==
    /\ pc = "check"
    /\ checked = <<>>
    /\ checked' = <<checkVersion(argHost, argRequired)>>
    /\ UNCHANGED <<managerVars, syncVars, frameVars, effectVars, argRecipe,
                   argManagers, argVersion, resolved, firstMethod, argHost, argRequired, argSpec,
                   parsedSpec, backendVars, queryVars>>

VersionNext == CheckVersion

VersionSpec == VersionInit /\ [][VersionNext]_vars

-----------------------------------------------------------------------------
(* parsePackageSpec called on its own *)

\* characters of the requirement strings
SpecChars == {"a", "@", "1"}

ParseInit ==
    /\ revision = "manager.ts"
    /\ dryRun = FALSE
    /\ ignoreLocal = FALSE
    /\ probes = [m \in Probed |-> "missing"]
    /\ env = <<>>
    /\ document = NoDocument
    /\ requirements = <<>>
    /\ recipes = <<>>
    /\ fetched = <<>>
    /\ pc = "parse"
    /\ SyncIdle
    /\ FrameIdle
    /\ argRecipe = [installMethods |-> <<>>]
    /\ argManagers = <<>>
    /\ argVersion = Absent
    /\ resolved = <<>>
    /\ firstMethod = <<>>
    /\ argHost = [installed |-> FALSE, installedVersion |-> Absent]
    /\ argRequired = Absent
    /\ checked = <<>>
    /\ argSpec \in SeqsUpTo(SpecChars, MaxSpecLen)
    /\ parsedSpec = <<>>
    /\ BackendIdle
    /\ QueryIdle

\* parsePackageSpec(spec)
ParsePackageSpec ==
    /\ pc = "parse"
    /\ parsedSpec = <<>>
    /\ parsedSpec' = <<parsePackageSpec(argSpec)>>
    /\ UNCHANGED <<managerVars, syncVars, frameVars, effectVars, argRecipe,
                   argManagers, argVersion, resolved, firstMethod, argHost, argRequired, checked,
                   argSpec, backendVars, queryVars>>

ParseNext == ParsePackageSpec

ParseSpec == ParseInit /\ [][ParseNext]_vars

-----------------------------------------------------------------------------
(* AptBackend.install and PacmanBackend.install called on their own, several
   times in one process run *)

BackendInit ==
    /\ revision = "manager.ts"
    /\ dryRun \in BOOLEAN
    /\ ignoreLocal = FALSE
    /\ probes = [m \in Probed |-> "missing"]
    /\ env = <<>>
    /\ document = NoDocument
    /\ requirements = <<>>
    /\ recipes = <<>>
    /\ fetched = <<>>
    /\ pc = "backend"
    /\ SyncIdle
    /\ FrameIdle
    /\ ResolverIdle

\* getBackend(manager).install(pkgName, method, dryRun, version)
BackendInstall ==
    /\ pc = "backend"
    /\ Len(installed) < MaxCalls
    /\ \E backend \in NativeBackends, method \in InstallMethods,
          version \in {Absent, <<"1">>}, exits \in Exits :
         LET done == IF backend = "apt"
                     THEN AptBackendInstall(cacheUpdated[backend], <<"a">>, method,
                                            dryRun, version, exits)
                     ELSE PacmanBackendInstall(cacheUpdated[backend], <<"a">>, method,
                                               dryRun, version, exits)
             call == Len(installed) + 1
         IN /\ cacheUpdated' = [cacheUpdated EXCEPT ![backend] = done.cacheUpdated]
            /\ commands' = commands \o
                  [n \in 1..Len(done.issued) |->
                     [call |-> call, backend |-> backend, cmd |-> done.issued[n].cmd,
                      executed |-> done.issued[n].executed]]
            /\ installed' = Append(installed,
                  [backend |-> backend, flagBefore |-> cacheUpdated[backend],
                   throws |-> done.throws])
    /\ UNCHANGED <<managerVars, syncVars, frameVars, effectVars, argRecipe,
                   argManagers, argVersion, resolved, firstMethod, argHost, argRequired, checked,
                   argSpec, parsedSpec, queryVars>>

BackendNext == BackendInstall

BackendSpec == BackendInit /\ [][BackendNext]_vars

-----------------------------------------------------------------------------
(* getInstalledVersion called on its own *)

\* what a command may print
OutputPool ==
    { <<>>, <<"a">>, <<"a", " ", "1", ".", "2", ".", "3">>, <<"v", "2", ".", "0", " ", "b">> }

\* what a spawned command may do
RunPool ==
    {NotSpawned} \cup {Run(TRUE, code, output) : code \in {0, 1}, output \in OutputPool}

\* at most MaxFlagRuns of the flags are commands the binary accepts; the
\* others exit 1 printing nothing
QueryRuns ==
    {runs \in [QueryCommands -> RunPool] :
        Cardinality({n \in 1..Len(versionFlags) :
                        runs[versionFlags[n]] # Run(TRUE, 1, <<>>)}) <= MaxFlagRuns}

QueryInit ==
    /\ revision = "manager.ts"
    /\ dryRun = FALSE
    /\ ignoreLocal = FALSE
    /\ probes = [m \in Probed |-> "missing"]
    /\ env = <<>>
    /\ document = NoDocument
    /\ requirements = <<>>
    /\ recipes = <<>>
    /\ fetched = <<>>
    /\ pc = "query"
    /\ SyncIdle
    /\ FrameIdle
    /\ argRecipe = [installMethods |-> <<>>]
    /\ argManagers = <<>>
    /\ argVersion = Absent
    /\ resolved = <<>>
    /\ firstMethod = <<>>
    /\ argHost = [installed |-> FALSE, installedVersion |-> Absent]
    /\ argRequired = Absent
    /\ checked = <<>>
    /\ argSpec = <<>>
    /\ parsedSpec = <<>>
    /\ BackendIdle
    /\ argVersionCommand \in {Absent, <<"c">>}
    /\ argRuns \in QueryRuns
    /\ gotVersion = <<>>

\* getInstalledVersion(recipe)
GetInstalledVersion ==
    /\ pc = "query"
    /\ gotVersion = <<>>
    /\ gotVersion' = <<getInstalledVersion(argVersionCommand, argRuns)>>
    /\ UNCHANGED <<managerVars, syncVars, frameVars, effectVars, argRecipe,
                   argManagers, argVersion, resolved, firstMethod, argHost, argRequired, checked,
                   argSpec, parsedSpec, backendVars, argVersionCommand, argRuns>>

QueryNext == GetInstalledVersion

QuerySpec == QueryInit /\ [][QueryNext]_vars

-----------------------------------------------------------------------------
(* Properties *)

\* the backend.install invocations of installOne call c, in order
CallLog(c) == SelectSeq(installLog, LAMBDA e : e.call = c)

\* the candidate list of installOne call c: the frame's while the call runs,
\* the finished call's record afterwards
CandidatesOf(c) == IF c < Len(results) THEN results[c + 1].methods ELSE methods

\* calls started so far
Calls == {e.call : e \in {installLog[n] : n \in 1..Len(installLog)}}

Finished == {results[n] : n \in 1..Len(results)}

\* C1: in installOne the backends whose install is invoked are, in order, a
\* prefix of the resolver's candidate list; every invocation but the last one
\* failed, so a candidate is invoked only after its predecessor failed and
\* none is invoked after a success.
C1_AttemptsArePrefixOfCandidates ==
    \A c \in Calls :
        LET log == CallLog(c)
            cs  == CandidatesOf(c)
        IN /\ Len(log) <= Len(cs)
           /\ \A n \in 1..Len(log) : log[n].manager = cs[n][1]
           /\ \A n \in 1..(Len(log) - 1) : ~log[n].ok

C1_Witness ==
    \E r \in Finished :
        /\ Len(r.methods) = 3
        /\ Len(CallLog(r.call)) = 2
        /\ CallLog(r.call)[2].ok

\* C2: a finished installOne call in which some install succeeded ended
\* Succeeded (it returned), and its recorded failures are exactly the
\* candidates before the succeeding one, in candidate order, each with the
\* message its install failed with.
C2_SuccessRecordsPrecedingFailures ==
    \A r \in Finished :
        LET log == CallLog(r.call)
            oks == {n \in 1..Len(log) : log[n].ok}
        IN oks # {} =>
             LET first == CHOOSE n \in oks : \A m \in oks : n <= m
             IN /\ r.outcome = "Succeeded"
                /\ Len(r.errors) = first - 1
                /\ \A n \in 1..(first - 1) :
                      /\ r.errors[n].manager = r.methods[n][1]
                      /\ r.errors[n].error = log[n].error
                /\ r.methods[first][1] = log[first].manager

C2_Witness ==
    \E r \in Finished :
        /\ r.outcome = "Succeeded"
        /\ [n \in 1..Len(r.methods) |-> r.methods[n][1]] = <<"apt", "script">>
        /\ Len(r.errors) = 1
        /\ r.errors[1].manager = "apt"

\* C3: a finished installOne call in which every candidate was invoked and
\* failed ended Failed, and a call that ended Failed because all methods
\* failed lists one failure per candidate, in candidate order, with the
\* backend and the message of each.
C3_AllFailedListsEveryCandidate ==
    \A r \in Finished :
        LET log == CallLog(r.call)
        IN /\ (/\ Len(r.methods) > 0
               /\ Len(log) = Len(r.methods)
               /\ \A n \in 1..Len(log) : ~log[n].ok)
              => (r.outcome = "Failed" /\ r.reason = "all installation methods failed")
           /\ (r.outcome = "Failed" /\ r.reason = "all installation methods failed")
              => /\ Len(r.errors) = Len(r.methods)
                 /\ \A n \in 1..Len(r.methods) :
                       /\ n <= Len(log)
                       /\ r.errors[n].manager = r.methods[n][1]
                       /\ r.errors[n].error = log[n].error

C3_Witness ==
    \E r \in Finished :
        /\ r.outcome = "Failed"
        /\ Len(r.methods) = 3
        /\ Len(r.errors) = 3

\* the backends of the Environment
Available == {env[n] : n \in 1..Len(env)}

\* C4: a finished installOne call that got its recipe and was not skipped,
\* for a recipe none of whose method keys is an available backend, resolved
\* to the empty list and ended Failed with "no installation method
\* available", and no backend install was invoked for it.
C4_NoMethodFailsWithoutInvoking ==
    \A r \in Finished :
        (/\ r.name \in DOMAIN recipes
         /\ r.reason # "recipe unavailable"
         /\ r.outcome # "Skipped"
         /\ (DOMAIN recipes[r.name].installMethods) \cap Available = {})
        => /\ r.methods = <<>>
           /\ r.outcome = "Failed"
           /\ r.reason = "no installation method available"
           /\ CallLog(r.call) = <<>>

C4_Witness ==
    \E r \in Finished :
        /\ r.name = <<"b">>
        /\ r.name \in DOMAIN recipes
        /\ DOMAIN recipes[r.name].installMethods = {"homebrew"}
        /\ env = <<"apt", "script">>
        /\ r.outcome = "Failed"
        /\ r.reason = "no installation method available"

\* position of manager m in list l (0 if absent)
IndexIn(l, m) ==
    IF \E n \in 1..Len(l) : l[n] = m THEN CHOOSE n \in 1..Len(l) : l[n] = m ELSE 0

\* C5: getInstallMethods called without a version returns exactly one pair
\* per backend of the list that is a key of the recipe's method map, each
\* with the recipe's method for that backend, in the list's relative order.
C5_ResolverIsFilteredSubsequence ==
    (resolved # <<>> /\ ~Truthy(argVersion)) =>
        LET out  == resolved[1]
            keys == DOMAIN argRecipe.installMethods
        IN /\ \A m \in ResolverManagers :
                Cardinality({n \in 1..Len(out) : out[n][1] = m})
                  = IF m \in keys /\ IndexIn(argManagers, m) > 0 THEN 1 ELSE 0
           /\ \A n \in 1..Len(out) : out[n][2] = argRecipe.installMethods[out[n][1]]
           /\ \A p, q \in 1..Len(out) :
                p < q => IndexIn(argManagers, out[p][1]) < IndexIn(argManagers, out[q][1])

C5_Witness ==
    /\ resolved # <<>>
    /\ argVersion = Absent
    /\ Len(argManagers) = 3
    /\ Len(resolved[1]) = 2
    /\ resolved[1][1][2] # resolved[1][2][2]

\* the backends documented as able to pin a version (README, Version Pinning)
VersionCapable == {"apt", "script"}

\* C6: with a version supplied, getInstallMethods returns the stable partition
\* of the no-version result: the same pairs, the version-capable backends
\* first, the list's order kept inside each group.
C6_VersionedResolverIsStablePartition ==
    (resolved # <<>> /\ Truthy(argVersion)) =>
        LET out  == resolved[1]
            base == getInstallMethods(argRecipe, argManagers, Absent)
        IN out = SelectSeq(base, LAMBDA c : c[1] \in VersionCapable)
                 \o SelectSeq(base, LAMBDA c : c[1] \notin VersionCapable)

C6_Witness ==
    /\ resolved # <<>>
    /\ argVersion = <<"1">>
    /\ argManagers = <<"homebrew", "script">>
    /\ Len(resolved[1]) = 2
    /\ resolved[1][1][1] = "script"
    /\ resolved[1][2][1] = "homebrew"

\* C7: when sync has returned or thrown, every package of the install batch
\* has had its installOne run to a terminal state.
C7_EveryBatchPackageAttempted ==
    pc = "exit" => Len(results) = Len(toInstall)

\* C8: when sync has ended with some package Failed, it threw, main returns
\* non-zero, and the outcomes of all packages of the batch were produced
\* before.
C8_FailureSignalledAfterAllOutcomes ==
    (pc = "exit" /\ \E r \in Finished : r.outcome = "Failed")
    => /\ thrown # Absent
       /\ exitCode = 1
       /\ \A n \in 1..Len(toInstall) : \E r \in Finished : r.call = n - 1

\* C9: in dry-run mode no backend install is ever invoked; a call that
\* reaches the candidate loop reports the first candidate as what would be
\* installed and the others, in resolver order, as fallbacks, and returns in
\* the first iteration.
C9_DryRunPreviewsFirstCandidateOnly ==
    dryRun =>
        /\ installLog = <<>>
        /\ i = 0
        /\ \A r \in Finished :
              r.methods # <<>> =>
                 /\ r.outcome = "DryRun"
                 /\ r.errors = <<>>
                 /\ r.preview.wouldInstall = r.methods[1][1]
                 /\ r.preview.fallbacks =
                      [n \in 1..(Len(r.methods) - 1) |-> r.methods[n + 1][1]]

C9_Witness ==
    /\ dryRun
    /\ \E r \in Finished :
          /\ r.outcome = "DryRun"
          /\ r.preview.wouldInstall = "homebrew"
          /\ r.preview.fallbacks = <<"apt", "script">>

\* C10: with ignoreLocal unset, an installOne call whose checkVersion reported
\* the tool installed, with no version required or with a matching version,
\* ended Skipped as already installed: it resolved no candidates and invoked
\* no backend install; and no call with such a report is in its loop.
C10_InstalledAndMatchingIsSkipped ==
    /\ \A r \in Finished :
          (/\ r.check # <<>>
           /\ r.check[1].installed
           /\ (~Truthy(r.version) \/ r.check[1].versionMatch))
          => /\ ~ignoreLocal
             /\ r.outcome = "Skipped"
             /\ r.reason = "already installed"
             /\ r.methods = <<>>
             /\ CallLog(r.call) = <<>>
    /\ (pc = "attempt" /\ versionCheck # <<>>) => ~versionCheck[1].installed

C10_Witness ==
    \E r \in Finished :
        /\ r.outcome = "Skipped"
        /\ r.reason = "already installed"
        /\ Truthy(r.version)
        /\ r.check[1].installed
        /\ r.check[1].versionMatch

\* the requirements sync's first loop has put in list `where`, in order
PutIn(where) == SelectSeq(examined, LAMBDA e : e.put = where)

\* a checkVersion report of an installed tool whose version is not the required one
IsMismatch(check, required) ==
    /\ check # <<>>
    /\ check[1].installed
    /\ Truthy(required)
    /\ ~check[1].versionMatch

\* C11: with ignoreLocal unset, a requirement that sync finds installed with
\* another version than the required one goes to versionMismatches and
\* nowhere else (neither the install batch nor the warnings), and an
\* installOne call that finds this ends Skipped with the reason "version
\* mismatch" (not "already installed"), resolves nothing and invokes no
\* backend; a run without a Failed package exits with 0.
C11_MismatchIsHeldNotInstalled ==
    /\ \A n \in 1..Len(examined) :
          (~ignoreLocal /\ IsMismatch(examined[n].check, examined[n].version))
          => examined[n].put = "versionMismatches"
    /\ versionMismatches
         = [n \in 1..Len(PutIn("versionMismatches")) |-> PutIn("versionMismatches")[n].name]
    /\ Len(toInstall) = Len(PutIn("toInstall"))
    /\ Len(syncErrors) = Len(PutIn("errors"))
    /\ \A r \in Finished :
          (~ignoreLocal /\ IsMismatch(r.check, r.version))
          => /\ r.outcome = "Skipped"
             /\ r.reason = "version mismatch"
             /\ r.methods = <<>>
             /\ CallLog(r.call) = <<>>
    /\ (pc = "exit" /\ \A r \in Finished : r.outcome # "Failed") => exitCode = 0

C11_Witness ==
    /\ ~ignoreLocal
    /\ \E n \in 1..Len(examined) :
          /\ IsMismatch(examined[n].check, examined[n].version)
          /\ examined[n].put = "versionMismatches"
    /\ \E r \in Finished :
          /\ IsMismatch(r.check, r.version)
          /\ r.reason = "version mismatch"
    /\ pc = "exit"

\* whether sync's first loop found the requirement in need of an install: not
\* installed, or installed with another version under --ignore-local
\* (part_005 looks at no local state: every requirement is in need)
NeedsInstall(e) ==
    \/ e.check = <<>>
    \/ ~e.check[1].installed
    \/ (ignoreLocal /\ IsMismatch(e.check, e.version))

\* number of entries of the install batch for requirement string spec
InBatch(spec) == Cardinality({n \in 1..Len(toInstall) : toInstall[n].spec = spec})

\* number of requirements the first loop has put in the batch for that string
PutInBatch(spec) ==
    Cardinality({n \in 1..Len(examined) :
                    examined[n].put = "toInstall" /\ examined[n].spec = spec})

C13_FetchFailureNeverAbortsBatch ==
    /\ \A n \in 1..Len(examined) :
          examined[n].throws => examined[n].put = "errors"
    /\ (pc \in {"install", "attempt"}) => Len(examined) = Len(requirements)
    /\ \A r \in Finished :
          (r.reason = "recipe unavailable" /\ r.call + 1 < Len(toInstall) /\ pc = "exit")
          => \E q \in Finished : q.call = r.call + 1

\* C14: once sync has planned the batch, the batch is in ascending order of
\* package name whatever the order of the requirements (it holds the same
\* entries the first loop collected), and its packages are processed one at a
\* time in that order: the n-th finished call is the n-th batch entry, the
\* call that is running is preceded by the finished calls of all entries
\* before it, and backend installs are logged in batch order.
C14_BatchInstalledInNameOrder ==
    /\ (pc \in {"install", "attempt"} \/ (pc = "exit" /\ results # <<>>))
       => /\ \A p, q \in 1..Len(toInstall) :
                p < q => localeCompare(toInstall[p].name, toInstall[q].name) <= 0
          /\ \A spec \in SpecPool : InBatch(spec) = PutInBatch(spec)
    /\ \A n \in 1..Len(results) :
          /\ results[n].call = n - 1
          /\ n <= Len(toInstall)
          /\ results[n].name = parsePackageSpec(toInstall[n].name).name
    /\ (pc = "attempt") => (Len(results) = j /\ j < Len(toInstall))
    /\ \A n \in 1..Len(installLog) :
          /\ installLog[n].call <= j
          /\ installLog[n].call < Len(toInstall)
          /\ n > 1 => installLog[n - 1].call <= installLog[n].call
          /\ (installLog[n].call = Len(results)) => pc = "attempt"

C14_Witness ==
    /\ Len(results) = 2
    /\ Len(PutIn("toInstall")) = 2
    /\ PutIn("toInstall")[1].name = <<"b">>
    /\ PutIn("toInstall")[2].name = <<"a">>
    /\ toInstall[1].name = <<"a">>
    /\ toInstall[2].name = <<"b">>
    /\ \E n \in 1..Len(installLog) : installLog[n].call = 0
    /\ \E n \in 1..Len(installLog) : installLog[n].call = 1

\* C15: every backend install invoked by installOne is passed the effective
\* version (the requiredVersion argument if given, else the version parsed
\* from the package spec, else none), and a script backend invoked for a
\* pinned requirement runs its script with VERSION equal to that version.
C15_BackendsReceiveEffectiveVersion ==
    \A n \in 1..Len(installLog) :
        LET e     == installLog[n]
            entry == toInstall[e.call + 1]
        IN /\ e.version = effectiveVersionOf(entry.version,
                                             parsePackageSpec(entry.name).version)
           /\ (e.manager = "script" /\ Truthy(e.version)) => e.scriptVersion = e.version

\* C16: an installOne call that has an effective version and at least one
\* candidate whose backend supports versioning invokes such a backend first.
C16_PinnedInstallTriesVersioningBackendFirst ==
    \A c \in Calls :
        LET log == CallLog(c)
            cs  == CandidatesOf(c)
        IN (/\ Truthy(log[1].version)
            /\ \E n \in 1..Len(cs) : ToBoolean(supportsVersioning(cs[n][1])))
           => ToBoolean(supportsVersioning(log[1].manager))

\* C17: supportsVersioning returns a boolean for every PackageManager, true
\* for apt and script and false for homebrew and pacman; here for every
\* candidate the resolver has returned for a pinned version (the candidates it
\* has sorted by that value).
C17_SupportsVersioningIsTotal ==
    (resolved # <<>> /\ Truthy(argVersion)) =>
        \A n \in 1..Len(resolved[1]) :
            LET manager == resolved[1][n][1]
            IN /\ manager \in PackageManager
               /\ supportsVersioning(manager) \in {"true", "false"}
               /\ manager \in {"apt", "script"} => supportsVersioning(manager) = "true"
               /\ manager \in {"homebrew", "pacman"} => supportsVersioning(manager) = "false"

\* C18: for every outcome of the probes, all failing included,
\* detectEnvironment completes, and the list it returns has no duplicates,
\* contains script, and has script as its last element.
C18_DetectEndsWithScript ==
    /\ (pc = "detect") => ENABLED Detect
    /\ (pc = "detected")
       => /\ \A p, q \in 1..Len(env) : p # q => env[p] # env[q]
          /\ \E p \in 1..Len(env) : env[p] = "script"
          /\ Len(env) >= 1
          /\ env[Len(env)] = "script"
          /\ \A p \in 1..Len(env) : env[p] \in PackageManager

C18_Witness ==
    /\ pc = "detected"
    /\ \A m \in Probed : probes[m] # "found"
    /\ \E m \in Probed : probes[m] = "error"
    /\ env = <<"script">>

\* C19: in the list detectEnvironment returns, every native manager (apt,
\* pacman) that is available comes before homebrew when homebrew is
\* available, and homebrew comes before script.
C19_NativeBeforeHomebrewBeforeScript ==
    (pc = "detected") =>
        /\ \A native \in {"apt", "pacman"} :
              (IndexIn(env, native) > 0 /\ IndexIn(env, "homebrew") > 0)
              => IndexIn(env, native) < IndexIn(env, "homebrew")
        /\ (IndexIn(env, "homebrew") > 0) => IndexIn(env, "homebrew") < IndexIn(env, "script")

\* C20: for every recipe of the cache, getInstallMethod is the head of the list
\* getInstallMethods returns without a version, and the not-found value
\* exactly when that list is empty; and no installOne call that sync makes for
\* a batch entry fails for lack of an installation method.
C20_AdmittedRequirementHasMethod ==
    /\ \A name \in DOMAIN recipes :
          LET all == getInstallMethods(recipes[name], env, Absent)
          IN /\ (getInstallMethod(recipes[name], env) = Absent) <=> (all = <<>>)
             /\ (all # <<>>) => getInstallMethod(recipes[name], env) = all[1]
    /\ \A r \in Finished : r.reason # "no installation method available"

\* number of finished installOne calls that ended in the given terminal state
Ended(outcome) == Cardinality({n \in 1..Len(results) : results[n].outcome = outcome})

\* a count of the printed summary, 0 for a count it does not print
Reported(field) ==
    IF field \in DOMAIN summary[1] THEN summary[1][field] ELSE 0

\* C21: when sync has ended after installing a batch (outside dry-run), it has
\* printed counts of skipped, succeeded and failed packages; each count is
\* the number of batch packages whose installOne ended in that state, and the
\* counts sum to the batch size.
C21_SummaryCountsEveryPackageOnce ==
    (pc = "exit" /\ ~dryRun /\ Len(toInstall) > 0) =>
        /\ summary # <<>>
        /\ Reported("succeeded") = Ended("Succeeded")
        /\ Reported("failed") = Ended("Failed")
        /\ Reported("skipped") = Ended("Skipped")
        /\ Reported("succeeded") + Reported("failed") + Reported("skipped")
             = Len(toInstall)

\* C22: with ignoreLocal set, a requirement that sync finds installed with
\* another version than the required one and whose recipe has a method for an
\* available manager is put in the install batch, and when sync has ended
\* outside dry-run a backend install has been invoked for it.
C22_IgnoreLocalInstallsOverMismatch ==
    \A n \in 1..Len(examined) :
        LET e == examined[n]
        IN (ignoreLocal /\ IsMismatch(e.check, e.version) /\ e.hasMethod)
           => /\ e.put = "toInstall"
              /\ (pc = "exit" /\ ~dryRun)
                 => \A p \in 1..Len(toInstall) :
                       toInstall[p].spec = e.spec => CallLog(p - 1) # <<>>

\* C23: for an installed tool and a supplied (non-empty) required version,
\* checkVersion reports versionMatch exactly when an installed version was
\* extracted and its normal form equals the normal form of the required one;
\* an installed tool without an extractable version never matches.
C23_MatchIffNormalizedVersionsEqual ==
    (checked # <<>> /\ argHost.installed /\ Truthy(argRequired)) =>
        /\ checked[1].installed
        /\ checked[1].versionMatch
             <=> (/\ argHost.installedVersion # Absent
                  /\ normalizeVersion(argHost.installedVersion)
                       = normalizeVersion(argRequired))
        /\ (argHost.installedVersion = Absent) => ~checked[1].versionMatch

C23_Witness ==
    /\ checked # <<>>
    /\ argHost.installed
    /\ argHost.installedVersion = <<"1", ".", "1">>
    /\ argRequired = <<"v", "1", ".", "1">>
    /\ checked[1].versionMatch

\* C24: checkVersion called with no required version on an installed tool
\* yields installed = true and versionMatch = true, whether or not an
\* installed version was extracted.
C24_NoRequirementAlwaysMatches ==
    (checked # <<>> /\ argHost.installed /\ argRequired = Absent) =>
        /\ checked[1].installed
        /\ checked[1].versionMatch
        /\ checked[1].installedVersion = argHost.installedVersion
        /\ checked[1].requiredVersion = Absent

C24_Witness ==
    /\ checked # <<>>
    /\ argHost.installed
    /\ argHost.installedVersion = Absent
    /\ argRequired = Absent
    /\ checked[1].versionMatch

\* checkVersion has normalized the required version
Normalized ==
    /\ checked # <<>>
    /\ argHost.installed
    /\ argHost.installedVersion # Absent
    /\ Truthy(argRequired)

\* C25: normalizeVersion is idempotent: normalizing the normal form of the
\* required version gives that normal form again.
C25_NormalizeVersionIdempotent ==
    Normalized =>
        normalizeVersion(normalizeVersion(argRequired)) = normalizeVersion(argRequired)

\* C26: normalizeVersion strips one leading 'v' or 'V' and the surrounding
\* whitespace: a required version written as the installed version, or as
\* that with a 'v' or a 'V' before it, matches the installed version, and the
\* installed version written with " v" before and " " after has the same
\* normal form.
C26_NormalizeStripsEitherCaseV ==
    Normalized =>
        LET installedVersion == argHost.installedVersion
        IN /\ (argRequired \in {installedVersion, <<"v">> \o installedVersion,
                                <<"V">> \o installedVersion})
              => checked[1].versionMatch
           /\ normalizeVersion(<<" ", "v">> \o installedVersion \o <<" ">>)
                = normalizeVersion(installedVersion)

\* the '@' positions of the string handed to parsePackageSpec
AtPositions == {n \in 1..Len(argSpec) : argSpec[n] = "@"}

\* C27: parsePackageSpec splits only at the rightmost '@': a string made of a
\* non-empty name, '@' and a non-empty version without '@' yields exactly
\* that name and that version; a string without '@' is the name, with no
\* version.
C27_ParseSplitsAtRightmostAt ==
    (parsedSpec # <<>>) =>
        /\ \A n \in AtPositions :
              (n > 1 /\ n < Len(argSpec) /\ \A m \in AtPositions : m <= n)
              => /\ parsedSpec[1].name = SubSeq(argSpec, 1, n - 1)
                 /\ parsedSpec[1].version = SubSeq(argSpec, n + 1, Len(argSpec))
        /\ (AtPositions = {})
              => (parsedSpec[1].name = argSpec /\ parsedSpec[1].version = Absent)

C27_Witness ==
    /\ parsedSpec # <<>>
    /\ argSpec = <<"a", "@", "a", "@", "1">>
    /\ parsedSpec[1].name = <<"a", "@", "a">>
    /\ parsedSpec[1].version = <<"1">>

\* C28: when nothing follows the last '@' of the string, parsePackageSpec
\* reports no version and returns the whole string as the name.
C28_EmptyVersionMeansWholeStringIsName ==
    (parsedSpec # <<>> /\ Len(argSpec) > 0 /\ argSpec[Len(argSpec)] = "@") =>
        /\ parsedSpec[1].version = Absent
        /\ parsedSpec[1].name = argSpec


\* the repository call the step made, <<>> if it made none
Fetch == IF fetched' = fetched THEN <<>> ELSE <<fetched'[Len(fetched')]>>

\* C29: the recipe cache is written once per package name and then only read:
\* in every step an entry already stored stays as it is, the repository is
\* asked only for a name that is not cached, a successful fetch stores exactly
\* that name's recipe and a failed fetch leaves the cache as it was; nothing is
\* stored without a fetch.
C29_RecipeCacheWrittenOnce ==
    [][ /\ \A name \in DOMAIN recipes :
              name \in DOMAIN recipes' /\ recipes'[name] = recipes[name]
        /\ Len(fetched') \in {Len(fetched), Len(fetched) + 1}
        /\ Fetch = <<>> => recipes' = recipes
        /\ Fetch # <<>> =>
              /\ Fetch[1].name \notin DOMAIN recipes
              /\ IF Fetch[1].ok
                 THEN DOMAIN recipes' = DOMAIN recipes \cup {Fetch[1].name}
                 ELSE recipes' = recipes ]_vars

\* a run in which a name was fetched once and then served from the cache to a
\* later requirement, and in which another fetch failed
C29_Witness ==
    /\ \E p, q \in 1..Len(examined) :
          /\ p < q
          /\ examined[p].name = examined[q].name
          /\ ~examined[p].throws /\ ~examined[q].throws
          /\ Cardinality({n \in 1..Len(fetched) :
                             fetched[n].name = examined[p].name}) = 1
    /\ \E n \in 1..Len(fetched) :
          ~fetched[n].ok /\ fetched[n].name \notin DOMAIN recipes


\* the positions in commands of backend's package-index update command
IndexUpdates(backend) ==
    {n \in 1..Len(commands) :
        /\ commands[n].backend = backend
        /\ Len(commands[n].cmd) = 3
        /\ commands[n].cmd[3] \in {<<"update">>, <<"-Sy">>}}

\* C30: in one process run a native backend's package-index update is run
\* once: the flag never goes back from set to unset, and over all install
\* calls through the backend, those after a failed call included, the update
\* command was issued at most once.
C30_IndexUpdateRunOnce ==
    \A backend \in NativeBackends :
       /\ \A p, q \in 1..Len(installed) :
             (p < q /\ installed[p].backend = backend /\ installed[q].backend = backend
                /\ installed[p].flagBefore) => installed[q].flagBefore
       /\ Cardinality(IndexUpdates(backend)) <= 1


\* the requirements file exists and cannot be read or is not a valid
\* requirements document
Unloadable(file) ==
    \/ file.read \notin {"ok", "NotFound"}
    \/ /\ file.read = "ok"
       /\ \/ ~file.toml
          \/ file.packages = "other"
          \/ /\ file.packages = "array"
             /\ \E n \in 1..Len(file.items) :
                   file.items[n].type # "string"
                     \/ \A c \in 1..Len(file.items[n].text) : file.items[n].text[c] = " "

\* C31: when the requirements file exists but cannot be read or parsed as a
\* valid requirements document, main ends with an error (it returns 1) and
\* no recipe was fetched, no requirement examined or version checked, and no
\* backend invoked.
C31_UnloadableRequirementsAbortFirst ==
    Unloadable(document) =>
       /\ fetched = <<>> /\ recipes = <<>>
       /\ examined = <<>> /\ results = <<>>
       /\ installLog = <<>> /\ toInstall = <<>>
       /\ env = <<>>
       /\ pc \in {"create", "exit"}
       /\ pc = "exit" => (exitCode = 1 /\ thrown # Absent)

\* main has returned 1 on a file whose second package is not a string, the
\* first being a valid requirement
C31_Witness ==
    /\ pc = "exit"
    /\ Len(document.items) = 2
    /\ document.items[1].type = "string" /\ document.items[1].text = <<"b">>
    /\ document.items[2].type = "number"
    /\ thrown # Absent


\* C32: when the recipe configures a custom version-query command, what
\* getInstalledVersion returns is determined by that command alone: the token
\* extracted from its output when it exits zero, nothing otherwise, whatever
\* the binary does with the common version flags.
C32_CustomVersionCommandAloneDecides ==
    (gotVersion # <<>> /\ Truthy(argVersionCommand)) =>
        gotVersion[1] =
           (IF argRuns["versionCommand"].spawned /\ argRuns["versionCommand"].code = 0
            THEN extractVersion(argRuns["versionCommand"].output)
            ELSE Absent)


C34_EveryResolvableBackendHasExecutor ==
    (pc = "detected") =>
        \A n \in 1..Len(env) :
            env[n] \in VALID_PACKAGE_MANAGERS => getBackend(env[n]) # Absent


\* C35: sync prints 'All required packages are already installed!' only when
\* every requirement was found installed: not when a requirement was left
\* uninstalled because its recipe could not be fetched or has no available
\* install method.
C35_AllInstalledNoticeOnlyWhenAllInstalled ==
    (notice = <<"All required packages are already installed!">>) =>
        \A n \in 1..Len(examined) :
            /\ ~examined[n].throws
            /\ examined[n].put # "errors"
            /\ examined[n].check # <<>>
            /\ examined[n].check[1].installed


\* C36: in one sync run a package name is installed successfully at most
\* once, whatever the requirements list repeats and with or without
\* ignoreLocal: no two installOne calls for the same name end in a successful
\* backend install.
C36_PackageInstalledAtMostOnce ==
    \A a, b \in 1..Len(results) :
        (a # b /\ results[a].outcome = "Succeeded" /\ results[b].outcome = "Succeeded")
            => results[a].name # results[b].name


\* the first loop found the requirement's tool installed, its version
\* matching or unconstrained
Satisfied(e) ==
    /\ e.check # <<>>
    /\ e.check[1].installed
    /\ ~Truthy(e.version) \/ e.check[1].versionMatch

\* the first loop saw the same local state each time it looked at a name
HostStable ==
    \A p, q \in 1..Len(examined) :
        (examined[p].name = examined[q].name /\ examined[p].check # <<>>
           /\ examined[q].check # <<>>)
        => /\ examined[p].check[1].installed = examined[q].check[1].installed
           /\ examined[p].check[1].installedVersion = examined[q].check[1].installedVersion

\* the package name installOne call c works on
InstalledName(c) == parsePackageSpec(toInstall[c + 1].name).name

\* C37: sync never puts in the install batch a requirement whose tool it
\* found installed with a matching or unconstrained version, with or without
\* ignoreLocal; so with ignoreLocal no backend install is run for a package
\* that sync found to satisfy its requirement.
C37_SatisfiedRequirementNeverBatched ==
    /\ \A n \in 1..Len(examined) :
          Satisfied(examined[n]) => examined[n].put # "toInstall"
    /\ (ignoreLocal /\ HostStable) =>
          \A c \in 1..Len(installLog) :
             \A n \in 1..Len(examined) :
                examined[n].name = InstalledName(installLog[c].call)
                   => ~Satisfied(examined[n])


-----------------------------------------------------------------------------
(* installOne's loop over the candidates, each backend's install carried out
   command by command *)

\* the managers whose backends the loop is run with
FallbackManagers == {"homebrew", "apt"}

\* the candidate lists: [manager, method] pairs, no manager twice
FallbackCandidates ==
    UNION { { c \in [1..n -> FallbackManagers \X InstallMethods] :
                \A a, b \in 1..n : a # b => c[a][1] # c[b][1] } : n \in 1..MaxCandidates }

FallbackInit ==
    /\ revision = "manager.ts"
    /\ dryRun = FALSE
    /\ ignoreLocal = FALSE
    /\ probes = [m \in Probed |-> "missing"]
    /\ env = <<>>
    /\ document = NoDocument
    /\ requirements = <<>>
    /\ recipes = <<>>
    /\ fetched = <<>>
    /\ pc = "fallback"
    /\ SyncIdle
    /\ packageName = <<"a">>
    /\ effectiveVersion \in {Absent, <<"1">>}
    /\ versionCheck = <<>>
    /\ methods \in FallbackCandidates
    /\ i = 0
    /\ errors = <<>>
    /\ ResolverIdle

\* getBackend(manager).install(packageName, method, dryRun, effectiveVersion)
backendInstall(manager, flag, pkgName, method, dry, version, exits) ==
    IF manager = "apt"
    THEN AptBackendInstall(flag, pkgName, method, dry, version, exits)
    ELSE [cacheUpdated |-> flag] @@ HomebrewBackendInstall(pkgName, method, dry, version, exits)

\* installOne: one iteration of the loop, the try block and its catch
InstallAttempt ==
    /\ pc = "fallback"
    /\ i < Len(methods)
    /\ \E exits \in Exits :
         LET manager == candidateAt(methods, i)[1]
             method  == candidateAt(methods, i)[2]
             done    == backendInstall(manager, cacheUpdated["apt"], packageName, method,
                                       dryRun, effectiveVersion, exits)
             ok      == ~done.throws
             errs    == IF ok THEN errors ELSE recordFailure(errors, manager, done.error)
             step    == afterInstall(ok, i, Len(methods))
             call    == Len(installed) + 1
         IN /\ cacheUpdated' = [cacheUpdated EXCEPT !["apt"] = done.cacheUpdated]
            /\ commands' = commands \o
                  [n \in 1..Len(done.issued) |->
                     [call |-> call, backend |-> manager, cmd |-> done.issued[n].cmd,
                      executed |-> done.issued[n].executed, exit |-> done.issued[n].exit]]
            /\ installed' = Append(installed,
                  [backend |-> manager, flagBefore |-> cacheUpdated["apt"],
                   throws |-> done.throws])
            /\ installLog' = Append(installLog,
                  [call |-> j, manager |-> manager, ok |-> ok,
                   version |-> effectiveVersion, scriptVersion |-> Absent,
                   error |-> done.error])
            /\ errors' = errs
            /\ IF step = "next"
               THEN i' = i + 1 /\ UNCHANGED <<pc, results>>
               ELSE /\ pc' = "fell"
                    /\ results' = Append(results,
                          outcomeRecord(packageName, effectiveVersion,
                             IF step = "return" THEN "Succeeded" ELSE "Failed",
                             IF step = "return" THEN "installed"
                             ELSE "all installation methods failed",
                             versionCheck, methods, errs, NoPreview))
                    /\ UNCHANGED i
    /\ UNCHANGED <<managerVars, k, toInstall, syncErrors, versionMismatches, examined, j,
                   succeeded, failed, exitCode, thrown, summary, notice, packageName,
                   effectiveVersion, versionCheck, methods, argRecipe, argManagers,
                   argVersion, resolved, firstMethod, argHost, argRequired, checked,
                   argSpec, parsedSpec, queryVars>>

FallbackNext == InstallAttempt

FallbackSpec == FallbackInit /\ [][FallbackNext]_vars

\* the commands run by the n-th backend invocation
CommandsOf(n) == { c \in 1..Len(commands) : commands[c].call = n }

\* the n-th invocation's post-install script failed after the package
\* commands before it had all exited zero
PostInstallFailed(n) ==
    \E c \in CommandsOf(n) :
       /\ commands[c].cmd[1] = <<"sh">>
       /\ commands[c].exit = "nonzero"
       /\ \A d \in CommandsOf(n) : d < c => commands[d].exit = "zero"
       /\ \E d \in CommandsOf(n) : d < c

\* C38: a backend install is a success only if every command it ran, the
\* package-manager command and the post-install script, exited zero; a
\* post-install failure after a successful package command is recorded in
\* errors for that backend, and the next candidate, if any, is invoked
C38_PostInstallFailureFailsBackend ==
    \A n \in 1..Len(installLog) :
       /\ installLog[n].ok =>
             /\ \A c \in CommandsOf(n) : commands[c].exit = "zero"
             /\ \E c \in CommandsOf(n) : commands[c].cmd[2] = <<"install">>
                                         \/ commands[c].cmd[3] = <<"install">>
       /\ PostInstallFailed(n) =>
             /\ ~installLog[n].ok
             /\ Len(errors) >= n
             /\ errors[n] = [manager |-> methods[n][1],
                             error |-> "Post-install script failed"]
             /\ n < Len(methods) =>
                   \/ pc = "fallback" /\ i = n
                   \/ /\ Len(installLog) > n
                      /\ installLog[n + 1].manager = methods[n + 1][1]
             /\ n = Len(methods) => results[1].outcome = "Failed"

C38_Witness ==
    /\ Len(installLog) = 2
    /\ PostInstallFailed(1)
    /\ installLog[2].ok
    /\ results # <<>>
    /\ results[1].outcome = "Succeeded"


\* C39: in a dry-run sync no package is counted or reported as installed
\* successfully: a package whose installOne only printed the preview is in
\* the summary neither as succeeded nor as failed.
C39_DryRunReportsNothingInstalled ==
    (dryRun /\ pc = "exit" /\ summary # <<>>) =>
        /\ Reported("succeeded") = 0
        /\ Reported("failed") = Ended("Failed")
        /\ \A n \in 1..Len(results) :
              results[n].outcome = "DryRun" =>
                 \A s \in 1..Len(succeeded) : succeeded[s] # toInstall[results[n].call + 1].spec


\* sync started on a requirements list of at most MaxBatch entries
TerminatingInit == Init /\ Len(requirements) <= MaxBatch

\* every external command returns: a step that can be taken is taken
TerminatingSpec == TerminatingInit /\ [][Next]_vars /\ WF_vars(Next)

\* no installOne call has invoked more backends than it has candidates or one
\* backend twice, and no batch entry has had more than one installOne call
BoundedInvocations ==
    /\ \A c \in Calls :
          LET log == CallLog(c)
          IN /\ Len(log) <= Len(CandidatesOf(c))
             /\ \A a, b \in 1..Len(log) : a # b => log[a].manager # log[b].manager
    /\ Len(results) <= Len(toInstall)
    /\ \A a, b \in 1..Len(results) : a # b => results[a].call # results[b].call

\* C40: provided every external command returns, installOne ends after at
\* most one install invocation per candidate, no backend invoked twice, and
\* sync ends after at most one installOne call per batch entry.
C40_InstallAndSyncTerminate ==
    []BoundedInvocations /\ <>(pc = "exit")

C40_Witness ==
    /\ pc = "exit"
    /\ Len(toInstall) = 2
    /\ Len(results) = 2
    /\ \E c \in Calls : Len(CallLog(c)) = Len(CandidatesOf(c)) /\ Len(CallLog(c)) > 1

=============================================================================
